---------------------------- MODULE Spec2Model ----------------------------
(***************************************************************************)
(* State-machine model of the twitch-bot event pipeline:                   *)
(*   TokenManager        crates/twitch-sdk/src/auth.rs                     *)
(*   EventSubClient      crates/twitch-sdk/src/eventsub/client.rs          *)
(*   TwitchFetcher       crates/twitch-bot/src/infra/fetchers/             *)
(*                       twitch_adapter.rs                                 *)
(*   Consumer            crates/twitch-bot/src/infra/consumer/consumer.rs  *)
(*   App                 crates/twitch-bot/src/core/app.rs                 *)
(* One step of the model is one poll of one tokio task between two         *)
(* suspension points (or one call on another thread, such as cancel()).    *)
(***************************************************************************)
EXTENDS Integers, Sequences, FiniteSets, TLC

(***************************************************************************)
(* Bounds of the model.  The three capacities are the program's constants  *)
(* scaled down (consumer.rs:16 BUFFER_SIZE = 30, eventsub/client.rs:24     *)
(* CHANNEL_BUFFER_SIZE = 100, twitch_adapter.rs:83 mpsc::channel(100)) so  *)
(* that "all permits in use" and "channel full" are reached with a few     *)
(* events; every formula below is stated in terms of the names.            *)
(***************************************************************************)
BUFFER_SIZE ==
    2

CHANNEL_BUFFER_SIZE ==
    1

FETCH_CHANNEL_SIZE ==
    2

\* number of events put on the stream that Consumer::consume is given
MaxEvents ==
    4

\* number of events the protocol client produces in one run of the pipeline
MaxPipelineEvents ==
    3

\* number of events the protocol client produces in a run that fills the
\* permits, the Fetcher channel and the forwarding task before shutdown (at
\* least BUFFER_SIZE + FETCH_CHANNEL_SIZE + 1); the largest of the event bounds
MaxDrainEvents ==
    5

\* number of events the protocol client produces in a run in which the
\* seconds after the shutdown signal are counted
MaxTimedEvents ==
    1

\* the longest chat text, in characters
MaxTextLen ==
    6

\* handle calls made one after the other on one handler
MaxCalls ==
    2

\* number of test callers of get_token besides the protocol client
NumCallers ==
    2

\* token responses the provider issues in a run in which their order is
\* followed
MaxIssued ==
    3

\* writer actors of earlier connections of the IrcClient that may still be
\* running when a new connection is made
MaxOldWriters ==
    1

(***************************************************************************)
(* Program constants (seconds).                                            *)
(***************************************************************************)
REFRESH_BUFFER_SECS ==
    600

RETRY_DELAY_SECS ==
    30

MIN_SLEEP_SECS ==
    60

RECONNECT_DELAY_SECS ==
    5

\* app.rs:12 SHUTDOWN_TIMEOUT
SHUTDOWN_TIMEOUT_SECS ==
    10

Events ==
    1..MaxDrainEvents

\* Option<T>: None is the empty sequence, Some(x) the one-element sequence
None ==
    <<>>

Some(x) ==
    <<x>>

VARIABLES
    \* ---- TokenManager (auth.rs:26-34) and its callers
    current_token,   \* RwLock<Option<String>>: <<>> is None
    refresh_token,   \* RwLock<String>
    init_lock,       \* Mutex<()>: None, or Some(id of the holder)
    on_rotation,     \* whether a rotation callback is installed
    provider,        \* what the OAuth provider may answer (fixed in a run)
    on_rotation_log, \* arguments the rotation callback was invoked with
    tpc,             \* position of each get_token caller / of the background loop
    tloc,            \* locals of refresh_now of each task
    tresult,         \* what get_token returned to each caller
    refreshed,       \* tasks that sent a refresh request to the provider
    sawEmpty,        \* callers whose first read of current_token found None
    bgSleep,         \* seconds the background loop sleeps (0: not sleeping)
    issued,          \* the token responses the provider has issued, in order
    \* ---- cancellation, EventSubClient supervisor, channels, forwarder
    cancelled,       \* CancellationToken
    spc,             \* position of the supervisor loop spawned by connect()
    sev,             \* Some(event the read loop is blocked sending)
    attemptEnd,      \* how the last connection attempt ended
    nextEv,          \* id of the next event the protocol layer produces
    attemptFirstEv,  \* nextEv when the current connection attempt started
    sdk,             \* SDK channel contents (mpsc, CHANNEL_BUFFER_SIZE)
    sdkRxAlive,      \* sdk_rx not yet dropped
    sessions,        \* session ids the server hands out in welcome messages
    session,         \* Some(id of the Session receive_welcome returned), None outside an attempt
    subscribed,      \* subscription requests made in the current attempt
    fpc,             \* position of the forwarding task spawned by fetch()
    fev,             \* Some(event the forwarding task is blocked sending)
    fch,             \* Fetcher channel contents (mpsc, capacity 100)
    fchTxAlive,      \* the Fetcher channel's sender not yet dropped
    fchRxAlive,      \* the Fetcher channel's receiver not yet dropped
    fchSent,         \* events ever put on the Fetcher channel
    \* ---- Consumer::consume
    cpc,             \* position of consume
    cev,             \* Some(event received, waiting for a permit)
    permits,         \* available permits of the semaphore
    task,            \* state of the dispatch unit of each event
    handled,         \* number of Router.handle invocations per event
    received,        \* events in the order ch.recv() returned them
    recvAfterClose,  \* whether recv() returned an event after the sender was dropped
    \* ---- App::run
    apc,             \* position of App::run
    appResult,       \* what run returned
    \* ---- time after the shutdown signal (TRUE timed: timers are counted)
    timed,           \* whether the specification counts seconds
    evCap,           \* number of notifications the feed delivers in the run
    sinceSignal,     \* seconds since wait_for_signals returned
    asleepAtSignal,  \* the supervisor was in its reconnect sleep at the signal
    sleepLeft,       \* seconds left of the supervisor's reconnect sleep
    deadlineLeft,    \* seconds left of timeout(SHUTDOWN_TIMEOUT, handle)
    \* ---- one Handler::handle call and the event it is given
    text,            \* the chat text of the TwitchEvent being converted
    kind,            \* Some(EventKind of the Event), None before the conversion
    role,            \* the bits of event.ctx.user.role
    required,        \* the role operand of contains / AuthMiddleware.role
    routes,          \* BaseRouter.routes: the handler of each Route, or None
    hpc,             \* position of the handle call
    hresult,         \* what the call returned
    invoked,         \* the handlers the call invoked, in order
    \* ---- IrcClient (the legacy text client of the SDK)
    ipc,             \* position of the supervisor loop spawned by IrcClient::connect
    iend,            \* how the last connection attempt of the IrcClient ended
    cmdq,            \* the command channel to the writer actor (mpsc, WS_CMD_BUFFER_SIZE)
    wpc,             \* state of the writer actor of the last connection made
    written,         \* the frames the writer actor wrote to that connection, in order
    itodo,           \* what handle_text_message has still to send for the frame in hand
    iout,            \* the IrcClient's event channel contents (mpsc, CHANNEL_BUFFER_SIZE)
    ioutRxAlive,     \* the receiver connect() returned is not yet dropped
    iframes,         \* text frames read so far
    pinged,          \* the PING lines answered on that connection, in order
    wold,            \* the writer actors of earlier connections: Some(frames still queued), None once ended
    \* ---- parse_tags of the IRC parser
    tags,            \* the tags of the line: the pairs between ';', in order
    meta             \* Some(UserMeta.role parse_tags returned), None before the call

\* fixed when the TokenManager is built
tokenConfig ==
    <<on_rotation, provider>>

tokenVars ==
    <<current_token, refresh_token, init_lock, tokenConfig, on_rotation_log, tpc, tloc,
      tresult, refreshed, sawEmpty, bgSleep>>

\* the Session local of run_lifecycle and the requests made with it
sessionVars ==
    <<sessions, session, subscribed>>

clientVars ==
    <<spc, sev, attemptEnd, nextEv, attemptFirstEv, sdk, sdkRxAlive, sessionVars>>

fetchVars ==
    <<fpc, fev>>

chanVars ==
    <<fch, fchTxAlive, fchRxAlive, fchSent>>

consumerVars ==
    <<cpc, cev, permits, task, handled, received, recvAfterClose>>

timeVars ==
    <<timed, evCap, sinceSignal, asleepAtSignal, sleepLeft, deadlineLeft>>

appVars ==
    <<apc, appResult, timeVars>>

handleVars ==
    <<text, kind, role, required, routes, hpc, hresult, invoked>>

ircVars ==
    <<ipc, iend, cmdq, wpc, written, itodo, iout, ioutRxAlive, iframes, pinged, wold>>

\* the provider's side of the token requests
providerVars ==
    <<issued>>

tagVars ==
    <<tags, meta>>

vars ==
    <<tokenVars, cancelled, clientVars, fetchVars, chanVars, consumerVars, appVars,
      handleVars, ircVars, tagVars, providerVars>>

\* main has not returned: when App::run returns, main returns (main.rs:28),
\* the runtime is dropped and no task of the process is polled again
ProcessAlive ==
    apc # "returned"

\* what a step of the TokenManager leaves alone
nonTokenVars ==
    <<cancelled, clientVars, fetchVars, chanVars, consumerVars, appVars, handleVars, ircVars, tagVars, providerVars>>

\* what a step of the Consumer leaves alone (it reads the Fetcher channel)
nonConsumerVars ==
    <<tokenVars, cancelled, clientVars, fetchVars, appVars, handleVars, ircVars, tagVars, providerVars>>

(***************************************************************************)
(* tokio::sync::mpsc, bounded.                                             *)
(***************************************************************************)
\* mutant: the buffer is a stack
ChanSendFront(ch, e) ==
    <<e>> \o ch

\* Sender::send when the buffer has room: the value goes to the back
ChanSend(ch, e) ==
    Append(ch, e)

\* Receiver::recv when the buffer is not empty: the front value
ChanFront(ch) ==
    Head(ch)

\* the buffer after recv took the front value
ChanPop(ch) ==
    Tail(ch)

(***************************************************************************)
(* Consumer::consume (consumer.rs:34-60)                                   *)
(***************************************************************************)
InFlight ==
    {e \in Events : task[e] \in {"spawned", "running"}}

\* mutant: the next event is taken while one still waits for its permit
ConsumerRecvAhead ==
    /\ ProcessAlive
    /\ cpc \in {"recv", "acquire"}
    /\ fch # <<>>
    /\ cev' = Some(ChanFront(fch))
    /\ fch' = ChanPop(fch)
    /\ received' = Append(received, ChanFront(fch))
    /\ recvAfterClose' = (recvAfterClose \/ ~fchTxAlive)
    /\ cpc' = "acquire"
    /\ UNCHANGED <<permits, task, handled, fchTxAlive, fchRxAlive, fchSent>>
    /\ UNCHANGED nonConsumerVars

\* line 37: ch.recv() returns Some(event)
ConsumerRecv ==
    /\ ProcessAlive
    /\ cpc = "recv"
    /\ fch # <<>>
    /\ cev' = Some(ChanFront(fch))
    /\ fch' = ChanPop(fch)
    /\ received' = Append(received, ChanFront(fch))
    /\ recvAfterClose' = (recvAfterClose \/ ~fchTxAlive)
    /\ cpc' = "acquire"
    /\ UNCHANGED <<permits, task, handled, fchTxAlive, fchRxAlive, fchSent>>
    /\ UNCHANGED nonConsumerVars

\* mutant: the loop ends as soon as the sender is gone, buffered events or not
ConsumerRecvClosedEarly ==
    /\ ProcessAlive
    /\ cpc = "recv"
    /\ ~fchTxAlive
    /\ cpc' = "drain"
    /\ UNCHANGED <<cev, permits, task, handled, received, recvAfterClose, chanVars>>
    /\ UNCHANGED nonConsumerVars

\* line 37: ch.recv() returns None: every sender dropped and the buffer empty
ConsumerRecvClosed ==
    /\ ProcessAlive
    /\ cpc = "recv"
    /\ fch = <<>>
    /\ ~fchTxAlive
    /\ cpc' = "drain"
    /\ UNCHANGED <<cev, permits, task, handled, received, recvAfterClose, chanVars>>
    /\ UNCHANGED nonConsumerVars

\* mutant: the dispatch unit is spawned without waiting for a permit
ConsumerAcquireNoWait ==
    /\ ProcessAlive
    /\ cpc = "acquire"
    /\ permits' = IF permits > 0 THEN permits - 1 ELSE 0
    /\ task' = [task EXCEPT ![cev[1]] = "spawned"]
    /\ cev' = None
    /\ cpc' = "recv"
    /\ UNCHANGED <<handled, received, recvAfterClose, chanVars>>
    /\ UNCHANGED nonConsumerVars

\* lines 38-56: acquire_owned() yields a permit, the dispatch unit is spawned
\* owning it.  Semaphore::close is never called, so the Err arm never runs.
ConsumerAcquire ==
    /\ ProcessAlive
    /\ cpc = "acquire"
    /\ permits > 0
    /\ permits' = permits - 1
    /\ task' = [task EXCEPT ![cev[1]] = "spawned"]
    /\ cev' = None
    /\ cpc' = "recv"
    /\ UNCHANGED <<handled, received, recvAfterClose, chanVars>>
    /\ UNCHANGED nonConsumerVars

\* line 48: first poll of the dispatch unit: router.handle(event) is invoked
TaskStart(e) ==
    /\ ProcessAlive
    /\ task[e] = "spawned"
    /\ task' = [task EXCEPT ![e] = "running"]
    /\ handled' = [handled EXCEPT ![e] = @ + 1]
    /\ UNCHANGED <<cpc, cev, permits, received, recvAfterClose, chanVars>>
    /\ UNCHANGED nonConsumerVars

\* mutant: a handler error ends consume
TaskFinishErrFatal(e, r) ==
    /\ ProcessAlive
    /\ task[e] = "running"
    /\ task' = [task EXCEPT ![e] = r]
    /\ permits' = permits + 1
    /\ cpc' = IF r = "err" THEN "returned" ELSE cpc
    /\ UNCHANGED <<cev, handled, received, recvAfterClose, chanVars>>
    /\ UNCHANGED nonConsumerVars

\* lines 49-53: the handler returns Ok or Err within HANDLER_TIMEOUT; an Err is
\* logged by handle_error; the unit ends and _permit is dropped
TaskFinish(e, r) ==
    /\ ProcessAlive
    /\ task[e] = "running"
    /\ task' = [task EXCEPT ![e] = r]
    /\ permits' = permits + 1
    /\ UNCHANGED <<cpc, cev, handled, received, recvAfterClose, chanVars>>
    /\ UNCHANGED nonConsumerVars

\* mutant: the permit of a timed-out unit is never returned
TaskTimeoutLeaksPermit(e) ==
    /\ ProcessAlive
    /\ task[e] = "running"
    /\ task' = [task EXCEPT ![e] = "timeout"]
    /\ UNCHANGED <<cpc, cev, permits, handled, received, recvAfterClose, chanVars>>
    /\ UNCHANGED nonConsumerVars

\* line 54: HANDLER_TIMEOUT elapses first: the handler future is dropped,
\* "handler timeout" is logged, the unit ends and _permit is dropped
TaskTimeout(e) ==
    /\ ProcessAlive
    /\ task[e] = "running"
    /\ task' = [task EXCEPT ![e] = "timeout"]
    /\ permits' = permits + 1
    /\ UNCHANGED <<cpc, cev, handled, received, recvAfterClose, chanVars>>
    /\ UNCHANGED nonConsumerVars

\* mutant: consume returns without the final acquire_many
ConsumerDrainNoWait ==
    /\ ProcessAlive
    /\ cpc = "drain"
    /\ cpc' = "returned"
    /\ fchRxAlive' = FALSE
    /\ UNCHANGED <<cev, permits, task, handled, received, recvAfterClose, fch, fchTxAlive, fchSent>>
    /\ UNCHANGED nonConsumerVars

\* line 59-60: acquire_many(BUFFER_SIZE) completes once every permit is back;
\* the permits are released at once (let _ =), consume returns and drops ch
ConsumerDrain ==
    /\ ProcessAlive
    /\ cpc = "drain"
    /\ permits = BUFFER_SIZE
    /\ cpc' = "returned"
    /\ fchRxAlive' = FALSE
    /\ UNCHANGED <<cev, permits, task, handled, received, recvAfterClose, fch, fchTxAlive, fchSent>>
    /\ UNCHANGED nonConsumerVars

ConsumerStep ==
    \/ ConsumerRecv
    \/ ConsumerRecvClosed
    \/ ConsumerAcquire
    \/ ConsumerDrain

TaskStep(e) ==
    \/ TaskStart(e)
    \/ \E r \in {"ok", "err"} : TaskFinish(e, r)
    \/ TaskTimeout(e)

(***************************************************************************)
(* TokenManager (auth.rs)                                                  *)
(***************************************************************************)
\* callers of get_token in a test of the TokenManager alone
Callers ==
    1..NumCallers

\* the protocol client, which calls get_token in every connection attempt
ClientCaller ==
    NumCallers + 1

\* the task spawned by start_background_loop
BgTask ==
    NumCallers + 2

TokenTasks ==
    1..(NumCallers + 2)

\* what the provider may answer a refresh request with (TokenResponse, lines
\* 17-21): access_token, refresh_token ("" stands for None) and expires_in.
\* AnyProvider issues differing access tokens, rotates the refresh token or
\* not, and gives lifetimes below and above REFRESH_BUFFER_SECS.
AnyProvider ==
    [access |-> {"a1", "a2"}, refresh |-> {"", "r0", "r1"}, expires |-> {30, 700}]

\* a provider that always issues the same access token and may rotate the
\* refresh token once
PlainProvider ==
    [access |-> {"a1"}, refresh |-> {"", "r1"}, expires |-> {700}]

NoLoc ==
    [cr |-> "", rt |-> "", full |-> None, exp |-> 0]

\* line 119: format!("oauth:{}", res.access_token)
FormatToken(a) ==
    <<"oauth:", a>>

\* u64::saturating_sub
SaturatingSub(a, b) ==
    IF a > b THEN a - b ELSE 0

Max(a, b) ==
    IF a > b THEN a ELSE b

\* lines 78-80
SleepSecs(expires_in) ==
    Max(SaturatingSub(expires_in, REFRESH_BUFFER_SECS), MIN_SLEEP_SECS)

\* mutant: the guard stays locked when its holder returns
GuardKept(t) ==
    init_lock

\* the init_lock guard of task t is dropped (get_token returns, or its future
\* is dropped)
GuardDropped(t) ==
    IF init_lock = Some(t) THEN None ELSE init_lock

\* refresh_now returned Ok((full, exp)) to task t: get_token returns Ok(full)
\* (line 68); the background loop sleeps SleepSecs(exp) (lines 77-83)
RefreshReturnsOk(t, full, exp) ==
    /\ tloc' = [tloc EXCEPT ![t] = NoLoc]
    /\ IF t = BgTask
       THEN /\ tpc' = [tpc EXCEPT ![t] = "sleep"]
            /\ bgSleep' = SleepSecs(exp)
            /\ UNCHANGED <<tresult, init_lock>>
       ELSE /\ tpc' = [tpc EXCEPT ![t] = "done"]
            /\ tresult' = [tresult EXCEPT ![t] = <<"ok", full>>]
            /\ init_lock' = GuardDropped(t)
            /\ UNCHANGED bgSleep

\* mutant: the background loop propagates the error with `?` and ends
RefreshReturnsErrEndsLoop(t) ==
    /\ tloc' = [tloc EXCEPT ![t] = NoLoc]
    /\ tpc' = [tpc EXCEPT ![t] = "done"]
    /\ tresult' = [tresult EXCEPT ![t] = <<"err">>]
    /\ init_lock' = GuardDropped(t)
    /\ UNCHANGED bgSleep

\* refresh_now returned Err to task t: get_token returns the error (line 67);
\* the background loop logs it and sleeps RETRY_DELAY_SECS (lines 85-91)
RefreshReturnsErr(t) ==
    /\ tloc' = [tloc EXCEPT ![t] = NoLoc]
    /\ IF t = BgTask
       THEN /\ tpc' = [tpc EXCEPT ![t] = "sleep"]
            /\ bgSleep' = RETRY_DELAY_SECS
            /\ UNCHANGED <<tresult, init_lock>>
       ELSE /\ tpc' = [tpc EXCEPT ![t] = "done"]
            /\ tresult' = [tresult EXCEPT ![t] = <<"err">>]
            /\ init_lock' = GuardDropped(t)
            /\ UNCHANGED bgSleep

\* mutant: no fast path, every call queues for init_lock
GetTokenCachedQueues(c) ==
    /\ ProcessAlive
    /\ tpc[c] = "start"
    /\ current_token # None
    /\ tpc' = [tpc EXCEPT ![c] = "lock"]
    /\ UNCHANGED <<current_token, refresh_token, init_lock, tokenConfig,
                   on_rotation_log, tloc, tresult, refreshed, sawEmpty, bgSleep>>
    /\ UNCHANGED nonTokenVars

\* lines 57-59: the first read finds a cached token and returns it
GetTokenCached(c) ==
    /\ ProcessAlive
    /\ tpc[c] = "start"
    /\ current_token # None
    /\ tpc' = [tpc EXCEPT ![c] = "done"]
    /\ tresult' = [tresult EXCEPT ![c] = <<"ok", current_token[1]>>]
    /\ UNCHANGED <<current_token, refresh_token, init_lock, tokenConfig,
                   on_rotation_log, tloc, refreshed, sawEmpty, bgSleep>>
    /\ UNCHANGED nonTokenVars

\* line 57, 61: the first read finds None: the caller queues for init_lock
GetTokenMiss(c) ==
    /\ ProcessAlive
    /\ tpc[c] = "start"
    /\ current_token = None
    /\ tpc' = [tpc EXCEPT ![c] = "lock"]
    /\ sawEmpty' = sawEmpty \cup {c}
    /\ UNCHANGED <<current_token, refresh_token, init_lock, tokenConfig,
                   on_rotation_log, tloc, tresult, refreshed, bgSleep>>
    /\ UNCHANGED nonTokenVars

\* line 61: init_lock.lock() is granted
GetTokenLock(c) ==
    /\ ProcessAlive
    /\ tpc[c] = "lock"
    /\ init_lock = None
    /\ init_lock' = Some(c)
    /\ tpc' = [tpc EXCEPT ![c] = "check"]
    /\ UNCHANGED <<current_token, refresh_token, tokenConfig, on_rotation_log,
                   tloc, tresult, refreshed, sawEmpty, bgSleep>>
    /\ UNCHANGED nonTokenVars

\* mutant: no second read under the guard, the caller always refreshes
GetTokenRecheckSkipped(c) ==
    /\ ProcessAlive
    /\ tpc[c] = "check"
    /\ tpc' = [tpc EXCEPT ![c] = "refresh"]
    /\ UNCHANGED <<current_token, refresh_token, init_lock, tokenConfig, on_rotation_log,
                   tloc, tresult, refreshed, sawEmpty, bgSleep>>
    /\ UNCHANGED nonTokenVars

\* lines 63-67: the second read, under the guard: return the token cached
\* meanwhile, or go on to refresh_now
GetTokenRecheck(c) ==
    /\ ProcessAlive
    /\ tpc[c] = "check"
    /\ \/ /\ current_token # None
          /\ tpc' = [tpc EXCEPT ![c] = "done"]
          /\ tresult' = [tresult EXCEPT ![c] = <<"ok", current_token[1]>>]
          /\ init_lock' = GuardDropped(c)
       \/ /\ current_token = None
          /\ tpc' = [tpc EXCEPT ![c] = "refresh"]
          /\ UNCHANGED <<tresult, init_lock>>
    /\ UNCHANGED <<current_token, refresh_token, tokenConfig, on_rotation_log,
                   tloc, refreshed, sawEmpty, bgSleep>>
    /\ UNCHANGED nonTokenVars

\* lines 98-112: refresh_now reads refresh_token and posts the request
RefreshSend(t) ==
    /\ ProcessAlive
    /\ tpc[t] = "refresh"
    /\ tloc' = [tloc EXCEPT ![t].cr = refresh_token]
    /\ refreshed' = refreshed \cup {t}
    /\ tpc' = [tpc EXCEPT ![t] = "request"]
    /\ UNCHANGED <<current_token, refresh_token, init_lock, tokenConfig,
                   on_rotation_log, tresult, sawEmpty, bgSleep>>
    /\ UNCHANGED nonTokenVars

\* mutant: a failed refresh forgets the cached token
RefreshFailClearsToken(t) ==
    /\ ProcessAlive
    /\ tpc[t] = "request"
    /\ RefreshReturnsErr(t)
    /\ current_token' = None
    /\ UNCHANGED <<refresh_token, tokenConfig, on_rotation_log, refreshed, sawEmpty>>
    /\ UNCHANGED nonTokenVars

\* lines 112-117: the request fails, the status is an error or the body does
\* not decode: refresh_now returns the error, nothing was written
RefreshFail(t) ==
    /\ ProcessAlive
    /\ tpc[t] = "request"
    /\ RefreshReturnsErr(t)
    /\ UNCHANGED <<current_token, refresh_token, tokenConfig, on_rotation_log,
                   refreshed, sawEmpty>>
    /\ UNCHANGED nonTokenVars

\* lines 119-130: the response decodes: current_token is written; without a
\* new refresh token (rt = "": None), or with the one sent, refresh_now returns
RefreshStore(t, a, rt, exp) ==
    /\ ProcessAlive
    /\ tpc[t] = "request"
    /\ current_token' = Some(FormatToken(a))
    /\ IF rt = "" \/ rt = tloc[t].cr
       THEN RefreshReturnsOk(t, FormatToken(a), exp)
       ELSE /\ tpc' = [tpc EXCEPT ![t] = "rotate"]
            /\ tloc' = [tloc EXCEPT ![t] =
                            [cr |-> "", rt |-> rt, full |-> FormatToken(a), exp |-> exp]]
            /\ UNCHANGED <<tresult, init_lock, bgSleep>>
    /\ UNCHANGED <<refresh_token, tokenConfig, on_rotation_log, refreshed, sawEmpty>>
    /\ UNCHANGED nonTokenVars

\* mutant: the rotated refresh token is stored but the callback is not invoked
RefreshRotateNoCallback(t) ==
    /\ ProcessAlive
    /\ tpc[t] = "rotate"
    /\ refresh_token' = tloc[t].rt
    /\ RefreshReturnsOk(t, tloc[t].full, tloc[t].exp)
    /\ UNCHANGED <<current_token, tokenConfig, on_rotation_log, refreshed, sawEmpty>>
    /\ UNCHANGED nonTokenVars

\* lines 131-143: the rotated refresh token is stored, the callback (if any)
\* is invoked with it, refresh_now returns
RefreshRotate(t) ==
    /\ ProcessAlive
    /\ tpc[t] = "rotate"
    /\ refresh_token' = tloc[t].rt
    /\ on_rotation_log' =
           IF on_rotation THEN on_rotation_log \cup {tloc[t].rt} ELSE on_rotation_log
    /\ RefreshReturnsOk(t, tloc[t].full, tloc[t].exp)
    /\ UNCHANGED <<current_token, tokenConfig, refreshed, sawEmpty>>
    /\ UNCHANGED nonTokenVars

\* lines 75-76, 83, 90: the sleep of the background loop ends, the loop goes
\* round to refresh_now
BgWake ==
    /\ ProcessAlive
    /\ tpc[BgTask] = "sleep"
    /\ tpc' = [tpc EXCEPT ![BgTask] = "refresh"]
    /\ bgSleep' = 0
    /\ UNCHANGED <<current_token, refresh_token, init_lock, tokenConfig,
                   on_rotation_log, tloc, tresult, refreshed, sawEmpty>>
    /\ UNCHANGED nonTokenVars

\* one step of refresh_now in task t
RefreshStep(t) ==
    \/ RefreshSend(t)
    \/ RefreshFail(t)
    \/ \E a \in provider.access, rt \in provider.refresh, exp \in provider.expires :
          RefreshStore(t, a, rt, exp)
    \/ RefreshRotate(t)

\* one step of get_token in caller c
GetTokenStep(c) ==
    \/ GetTokenCached(c)
    \/ GetTokenMiss(c)
    \/ GetTokenLock(c)
    \/ GetTokenRecheck(c)
    \/ RefreshStep(c)

\* one step of the loop of start_background_loop
BgStep ==
    \/ RefreshStep(BgTask)
    \/ BgWake

(***************************************************************************)
(* Initial states.  Each specification starts one part of the program and  *)
(* leaves the tasks of the other parts unstarted ("off").                  *)
(***************************************************************************)
\* TokenManager::new (lines 38-48); the callers in `on` are about to call
\* get_token, the background loop has been started iff bg
TokenInit(on, bg, cb, prov) ==
    /\ provider = prov
    /\ current_token = None
    /\ refresh_token = "r0"
    /\ init_lock = None
    /\ on_rotation = cb
    /\ on_rotation_log = {}
    /\ tpc = [t \in TokenTasks |->
                 IF t \in on THEN "start"
                 ELSE IF t = BgTask /\ bg THEN "refresh" ELSE "off"]
    /\ tloc = [t \in TokenTasks |-> NoLoc]
    /\ tresult = [t \in TokenTasks |-> <<>>]
    /\ refreshed = {}
    /\ sawEmpty = {}
    /\ bgSleep = 0
    /\ issued = <<>>

\* the server names every session alike
OneSession ==
    {"s1"}

\* EventSubClient::new, before connect() (eventsub/client.rs:72-85), facing a
\* server that names its sessions out of ids
ClientNew(ids) ==
    /\ cancelled = FALSE
    /\ spc = "off"
    /\ sev = None
    /\ attemptEnd = "none"
    /\ nextEv = 1
    /\ attemptFirstEv = 1
    /\ sdk = <<>>
    /\ sdkRxAlive = TRUE
    /\ sessions = ids
    /\ session = None
    /\ subscribed = <<>>
    /\ fpc = "off"
    /\ fev = None

ClientOff ==
    ClientNew(OneSession)

\* no writer actor of an earlier connection is left
NoOldWriters ==
    [i \in 1..MaxOldWriters |-> None]

\* IrcClient::new, before connect() (irc/client.rs:41-52)
IrcOff ==
    /\ ipc = "off"
    /\ iend = "none"
    /\ cmdq = <<>>
    /\ wpc = "off"
    /\ written = <<>>
    /\ itodo = <<>>
    /\ iout = <<>>
    /\ ioutRxAlive = TRUE
    /\ iframes = 0
    /\ pinged = <<>>
    /\ wold = NoOldWriters

\* parse_tags has not been called
TagsOff ==
    /\ tags = <<>>
    /\ meta = None

\* the Fetcher channel as mpsc::channel creates it
ChannelInit ==
    /\ fch = <<>>
    /\ fchTxAlive = TRUE
    /\ fchRxAlive = TRUE
    /\ fchSent = {}

\* consume entered: the semaphore holds BUFFER_SIZE permits (consumer.rs:35)
ConsumerInit(pc) ==
    /\ cpc = pc
    /\ cev = None
    /\ permits = BUFFER_SIZE
    /\ task = [e \in Events |-> "none"]
    /\ handled = [e \in Events |-> 0]
    /\ received = <<>>
    /\ recvAfterClose = FALSE

\* no signal yet, no timer armed
TimeInit(t, cap) ==
    /\ timed = t
    /\ evCap = cap
    /\ sinceSignal = 0
    /\ asleepAtSignal = FALSE
    /\ sleepLeft = 0
    /\ deadlineLeft = 0

\* no event has been converted and no handle call made
HandleOff ==
    /\ text = <<>>
    /\ kind = None
    /\ role = 0
    /\ required = 0
    /\ routes = <<>>
    /\ hpc = "off"
    /\ hresult = <<>>
    /\ invoked = <<>>

AppOff ==
    /\ apc = "off"
    /\ appResult = "none"
    /\ TimeInit(FALSE, MaxPipelineEvents)
    /\ HandleOff

(***************************************************************************)
(* SpecToken: a TokenManager with NumCallers concurrent get_token callers, *)
(* with or without the background loop (auth.rs tests; twitch_adapter.rs   *)
(* 37-42 starts the loop).                                                 *)
(***************************************************************************)
InitToken ==
    /\ \E bg \in BOOLEAN : TokenInit(Callers, bg, TRUE, AnyProvider)
    /\ ClientOff
    /\ ChannelInit
    /\ IrcOff
    /\ TagsOff
    /\ ConsumerInit("off")
    /\ AppOff

NextToken ==
    \/ \E c \in Callers : GetTokenStep(c)
    \/ BgStep

SpecToken ==
    InitToken /\ [][NextToken]_vars

\* every ready task is polled, every timer fires and every request to the
\* provider is answered
FairToken ==
    /\ SpecToken
    /\ \A c \in Callers : WF_vars(GetTokenStep(c))
    /\ WF_vars(BgStep)

(***************************************************************************)
(* Claims about the TokenManager (SpecToken, FairToken)                    *)
(***************************************************************************)
CallersDone ==
    \A c \in Callers : tpc[c] = "done"

\* callers whose get_token is inside refresh_now
Refreshing ==
    {c \in Callers \cup {ClientCaller} : tpc[c] \in {"refresh", "request", "rotate"}}

AllSameToken ==
    \A c, d \in Callers :
        /\ tresult[c] = tresult[d]
        /\ tresult[c][1] = "ok"

\* C7 as stated: N callers of get_token that all found no cached token cause
\* exactly one network refresh in total and all return the same token, in
\* every interleaving (background loop running or not, refresh failing or not).
C7_ExactlyOneRefreshAlways ==
    (CallersDone /\ sawEmpty = Callers) =>
        (Cardinality(refreshed) = 1 /\ AllSameToken)

\* C7 amended: the initializing guard lets at most one get_token caller be
\* inside refresh_now at any instant, and the callers send at most one
\* refresh request more than the number of them whose refresh failed
\* (background loop running or not); when no refresh attempt fails and the
\* background loop is not running, N callers that all found no cached token
\* cause exactly one network refresh and all return the same token.
C7_OneRefreshUnderGuard ==
    /\ Cardinality(Refreshing) <= 1
    /\ Cardinality(refreshed \cap Callers)
           <= 1 + Cardinality({c \in Callers : tresult[c] = <<"err">>})
    /\ (/\ CallersDone
        /\ sawEmpty = Callers
        /\ tpc[BgTask] = "off"
        /\ \A c \in Callers : tresult[c][1] = "ok")
       => (Cardinality(refreshed) = 1 /\ AllSameToken)

C7_Witness ==
    /\ CallersDone
    /\ sawEmpty = Callers
    /\ tpc[BgTask] = "off"
    /\ Cardinality(refreshed) = 1
    /\ AllSameToken

\* C8: a get_token call that finds a token cached returns exactly that
\* value in one step, sends no refresh request and changes nothing of the
\* TokenManager (tokens, guard, rotation log).
C8_CachedReadIsPure ==
    [][\A c \in Callers :
          (tpc[c] = "start" /\ current_token # None /\ tpc'[c] # tpc[c]) =>
              /\ tpc'[c] = "done"
              /\ tresult'[c] = <<"ok", current_token[1]>>
              /\ UNCHANGED <<current_token, refresh_token, init_lock,
                             on_rotation_log, refreshed, tloc>>]_vars

\* every caller found the token cached and all returned the same cached value
C8_Witness ==
    /\ CallersDone
    /\ sawEmpty = {}
    /\ current_token # None
    /\ \A c \in Callers : tresult[c] = <<"ok", current_token[1]>> /\ c \notin refreshed

\* C10: once started the background loop never leaves its loop: it is always
\* refreshing or sleeping, after a failed refresh it sleeps RETRY_DELAY_SECS,
\* after a successful one at least MIN_SLEEP_SECS, and after every sleep it
\* sends another refresh request, however many refreshes failed before.
C10_BackgroundLoopForever ==
    /\ [](tpc[BgTask] \in {"off", "refresh", "request", "rotate", "sleep"})
    /\ [][RefreshFail(BgTask) => (tpc'[BgTask] = "sleep" /\ bgSleep' = RETRY_DELAY_SECS)]_vars
    /\ [](tpc[BgTask] = "sleep" =>
            (bgSleep = RETRY_DELAY_SECS \/ bgSleep >= MIN_SLEEP_SECS))
    /\ [](tpc[BgTask] = "sleep" => <>(tpc[BgTask] = "request"))
    /\ [](tpc[BgTask] = "request" => <>(tpc[BgTask] = "sleep"))

\* the loop is asleep after a failed refresh
C10_Witness ==
    /\ tpc[BgTask] = "sleep"
    /\ bgSleep = RETRY_DELAY_SECS
    /\ current_token = None

(***************************************************************************)
(* SpecConsumer: Consumer::consume on a stream whose sender sends any      *)
(* number (up to MaxEvents) of events and closes the stream at any moment. *)
(***************************************************************************)
\* the sender half: tx.send(event) when the buffer has room
\* (twitch_adapter.rs:101)
StreamSend ==
    /\ fchTxAlive
    /\ fchRxAlive
    /\ nextEv <= MaxEvents
    /\ Len(fch) < FETCH_CHANNEL_SIZE
    /\ fch' = ChanSend(fch, nextEv)
    /\ fchSent' = fchSent \cup {nextEv}
    /\ nextEv' = nextEv + 1
    /\ UNCHANGED <<fchTxAlive, fchRxAlive>>
    /\ UNCHANGED <<tokenVars, cancelled, spc, sev, attemptEnd, attemptFirstEv, sessionVars, sdk, sdkRxAlive,
                   fetchVars, consumerVars, appVars, handleVars, ircVars, tagVars, providerVars>>

\* the sender half is dropped: the stream is closed (twitch_adapter.rs:113)
StreamClose ==
    /\ fchTxAlive
    /\ fchTxAlive' = FALSE
    /\ UNCHANGED <<fch, fchRxAlive, fchSent>>
    /\ UNCHANGED <<tokenVars, cancelled, clientVars, fetchVars, consumerVars, appVars, handleVars, ircVars, tagVars, providerVars>>

InitConsumer ==
    /\ TokenInit({}, FALSE, FALSE, PlainProvider)
    /\ ClientOff
    /\ ChannelInit
    /\ IrcOff
    /\ TagsOff
    /\ ConsumerInit("recv")
    /\ AppOff

NextConsumer ==
    \/ StreamSend
    \/ StreamClose
    \/ ConsumerStep
    \/ \E e \in Events : TaskStep(e)

SpecConsumer ==
    InitConsumer /\ [][NextConsumer]_vars

\* consume and every spawned dispatch unit are polled when ready, and the
\* timer of timeout(HANDLER_TIMEOUT, ..) fires; nothing is assumed of the
\* sender or of the handlers (a handler may never return)
FairConsumer ==
    /\ SpecConsumer
    /\ WF_vars(ConsumerStep)
    /\ \A e \in Events : WF_vars(TaskStart(e)) /\ WF_vars(TaskTimeout(e))

(***************************************************************************)
(* Claims about the Consumer (SpecConsumer, FairConsumer)                  *)
(***************************************************************************)
Running ==
    {e \in Events : task[e] = "running"}

Finished ==
    {e \in Events : task[e] \in {"ok", "err", "timeout"}}

\* C1: at most BUFFER_SIZE handler invocations are running at any instant, and
\* every dispatch unit that exists holds one of the BUFFER_SIZE permits.
C1_BoundedConcurrency ==
    /\ Cardinality(Running) <= BUFFER_SIZE
    /\ permits >= 0
    /\ Cardinality(InFlight) + permits = BUFFER_SIZE

\* every permit is in use by a running handler and one more event waits
C1_Witness ==
    /\ Cardinality(Running) = BUFFER_SIZE
    /\ permits = 0
    /\ cpc = "acquire"

\* C2: when consume has returned, the stream is closed and empty, every permit
\* is back and no dispatch unit it spawned is still in flight.
C2_ReturnsAfterDrain ==
    cpc = "returned" =>
        /\ ~fchTxAlive
        /\ fch = <<>>
        /\ InFlight = {}
        /\ permits = BUFFER_SIZE

\* consume returned after more events than there are permits
C2_Witness ==
    /\ cpc = "returned"
    /\ Cardinality(Finished) > BUFFER_SIZE

\* C3: no event is handed to the Router twice, an event whose dispatch unit ran
\* was handed to it once, whatever the outcome, the stream hands no event out
\* twice, and when consume has returned every event that was put on the
\* stream, also one still buffered when the sender closed, was handed to the
\* Router exactly once.
C3_ExactlyOnce ==
    /\ \A e \in Events : handled[e] <= 1
    /\ \A e \in Running \cup Finished : handled[e] = 1
    /\ \A i, j \in 1..Len(received) : received[i] = received[j] => i = j
    /\ cpc = "returned" => \A e \in fchSent : handled[e] = 1

\* consume returned after it received events that were still buffered when
\* the sender was dropped; one event timed out and one failed
C3_Witness ==
    /\ cpc = "returned"
    /\ recvAfterClose
    /\ fchSent = 1..MaxEvents
    /\ \E e \in fchSent : task[e] = "timeout"
    /\ \E e \in fchSent : task[e] = "err"

\* C4: a handler that does not return in time is abandoned for good (its unit
\* ends as timed out, with the one invocation it had), its permit is back in
\* the pool, and a running handler always ends or is timed out, so that every
\* event put on the stream is eventually handed to the Router, even when no
\* handler ever returns.
C4_TimeoutAbandons ==
    /\ [](\A e \in Events : task[e] = "timeout" => handled[e] = 1)
    /\ [][\A e \in Events : task[e] = "timeout" => task'[e] = "timeout"]_vars
    /\ [](Cardinality(InFlight) + permits = BUFFER_SIZE)
    /\ \A e \in Events : [](task[e] = "running" => <>(task[e] \in {"ok", "err", "timeout"}))
    /\ \A e \in Events : [](e \in fchSent => <>(handled[e] = 1))

\* as many handlers as there are permits timed out and a later event was
\* dispatched all the same
C4_Witness ==
    /\ \A e \in 1..BUFFER_SIZE : task[e] = "timeout"
    /\ handled[BUFFER_SIZE + 1] = 1

\* C5: the step that ends one dispatch unit (Ok, Err or timeout) changes
\* neither the state nor the invocation count of any other event nor the
\* position of consume; consume leaves its receive loop only when the stream
\* is closed and empty; and every event put on the stream is eventually
\* dispatched and ends with a result of its own.
C5_ErrorsAreContained ==
    /\ [][\A e \in Events :
             (task[e] = "running" /\ task'[e] # "running") =>
                 /\ \A f \in Events \ {e} : task'[f] = task[f] /\ handled'[f] = handled[f]
                 /\ cpc' = cpc
                 /\ UNCHANGED <<fch, fchTxAlive, fchRxAlive>>]_vars
    /\ [](cpc \in {"drain", "returned"} => (~fchTxAlive /\ fch = <<>>))
    /\ \A e \in Events : [](e \in fchSent => <>(e \in Finished))

\* an event ended Ok after an earlier one failed and another timed out
C5_Witness ==
    \E e, f, g \in Events :
        /\ e < g /\ f < g
        /\ task[e] = "err" /\ task[f] = "timeout" /\ task[g] = "ok"

(***************************************************************************)
(* EventSubClient: the supervisor loop spawned by connect()                *)
(* (eventsub/client.rs:107-138) around run_lifecycle (153-182)             *)
(***************************************************************************)
\* positions inside run_lifecycle; the select! of the supervisor drops the
\* run_lifecycle future at any of them once cancellation is observed
InAttempt ==
    {"connecting", "welcome", "get_token", "sub_rewards", "sub_chat",
     "streaming", "sending"}

\* every clone of the SDK channel's sender lives in the supervisor task
SdkTxAlive ==
    spc \notin {"off", "stopped"}

\* ways a streaming attempt ends with Err: undecodable frame or payload
\* (364-365, 411-412), close frame (353-356), WebSocket error (333-335),
\* keepalive timeout (340-343), session_reconnect (374-377)
StreamErrors ==
    {"parse", "close", "ws_error", "keepalive_timeout", "reconnect"}

\* run_lifecycle returns Err(why) into the select! arm (line 127); its
\* locals, the Session among them, are dropped
AttemptErr(why) ==
    /\ spc' = "failed"
    /\ attemptEnd' = why
    /\ sev' = None
    /\ session' = None
    /\ subscribed' = <<>>

\* lines 110-119: no cancellation pending: run_lifecycle is polled, a new
\* connection attempt starts with connect_async
SupSelect ==
    /\ ProcessAlive
    /\ spc = "select"
    /\ ~cancelled
    /\ spc' = "connecting"
    /\ attemptEnd' = "none"
    /\ attemptFirstEv' = nextEv
    /\ UNCHANGED <<sev, nextEv, sdk, sdkRxAlive, sessionVars>>
    /\ UNCHANGED <<tokenVars, cancelled, fetchVars, chanVars, consumerVars, appVars, handleVars, ircVars, tagVars, providerVars>>

\* lines 114-117: cancellation wins the biased select!: the run_lifecycle
\* future is dropped where it stands (with the get_token call it is in, whose
\* guard is released), the loop breaks and the task ends, dropping tx
SupCancelled ==
    /\ ProcessAlive
    /\ spc \in InAttempt \cup {"select"}
    /\ cancelled
    /\ spc' = "stopped"
    /\ sev' = None
    /\ tpc' = [tpc EXCEPT ![ClientCaller] = "off"]
    /\ tloc' = [tloc EXCEPT ![ClientCaller] = NoLoc]
    /\ init_lock' = GuardDropped(ClientCaller)
    /\ session' = None
    /\ subscribed' = <<>>
    /\ UNCHANGED <<attemptEnd, nextEv, attemptFirstEv, sessions, sdk, sdkRxAlive>>
    /\ UNCHANGED <<current_token, refresh_token, tokenConfig, on_rotation_log,
                   tresult, refreshed, sawEmpty, bgSleep>>
    /\ UNCHANGED <<cancelled, fetchVars, chanVars, consumerVars, appVars, handleVars, ircVars, tagVars, providerVars>>

\* lines 165-167: connect_async succeeds or fails
SupConnect(ok) ==
    /\ ProcessAlive
    /\ spc = "connecting"
    /\ ~cancelled
    /\ IF ok
       THEN spc' = "welcome" /\ UNCHANGED <<attemptEnd, sev, session, subscribed>>
       ELSE AttemptErr("connect")
    /\ UNCHANGED <<nextEv, attemptFirstEv, sessions, sdk, sdkRxAlive>>
    /\ UNCHANGED <<tokenVars, cancelled, fetchVars, chanVars, consumerVars, appVars, handleVars, ircVars, tagVars, providerVars>>

\* lines 169-172, 184-228: receive_welcome yields the session the server
\* named in its session_welcome and get_token is called, or the socket closes
\* or fails before the welcome
SupWelcome(ok) ==
    /\ ProcessAlive
    /\ spc = "welcome"
    /\ ~cancelled
    /\ IF ok
       THEN /\ spc' = "get_token"
            /\ \E id \in sessions : session' = Some(id)
            /\ tpc' = [tpc EXCEPT ![ClientCaller] = "start"]
            /\ tresult' = [tresult EXCEPT ![ClientCaller] = <<>>]
            /\ UNCHANGED <<attemptEnd, sev, subscribed>>
       ELSE /\ AttemptErr("welcome")
            /\ UNCHANGED <<tpc, tresult>>
    /\ UNCHANGED <<nextEv, attemptFirstEv, sessions, sdk, sdkRxAlive>>
    /\ UNCHANGED <<current_token, refresh_token, init_lock, tokenConfig,
                   on_rotation_log, tloc, refreshed, sawEmpty, bgSleep>>
    /\ UNCHANGED <<cancelled, fetchVars, chanVars, consumerVars, appVars, handleVars, ircVars, tagVars, providerVars>>

\* mutant: the error of get_token is ignored and the attempt goes on
SupTokenReturnedIgnoresErr ==
    /\ ProcessAlive
    /\ spc = "get_token"
    /\ ~cancelled
    /\ tpc[ClientCaller] = "done"
    /\ tpc' = [tpc EXCEPT ![ClientCaller] = "off"]
    /\ spc' = "sub_rewards"
    /\ UNCHANGED <<attemptEnd, sev, nextEv, attemptFirstEv, sessionVars, sdk, sdkRxAlive>>
    /\ UNCHANGED <<current_token, refresh_token, init_lock, tokenConfig,
                   on_rotation_log, tloc, tresult, refreshed, sawEmpty, bgSleep>>
    /\ UNCHANGED <<cancelled, fetchVars, chanVars, consumerVars, appVars, handleVars, ircVars, tagVars, providerVars>>

\* line 172: get_token().await? : Ok goes on to the subscriptions, Err ends
\* the attempt with that error
SupTokenReturned ==
    /\ ProcessAlive
    /\ spc = "get_token"
    /\ ~cancelled
    /\ tpc[ClientCaller] = "done"
    /\ tpc' = [tpc EXCEPT ![ClientCaller] = "off"]
    /\ IF tresult[ClientCaller][1] = "ok"
       THEN spc' = "sub_rewards" /\ UNCHANGED <<attemptEnd, sev, session, subscribed>>
       ELSE AttemptErr("auth")
    /\ UNCHANGED <<nextEv, attemptFirstEv, sessions, sdk, sdkRxAlive>>
    /\ UNCHANGED <<current_token, refresh_token, init_lock, tokenConfig,
                   on_rotation_log, tloc, tresult, refreshed, sawEmpty, bgSleep>>
    /\ UNCHANGED <<cancelled, fetchVars, chanVars, consumerVars, appVars, handleVars, ircVars, tagVars, providerVars>>

\* mutant: the chat subscription is left out
SupSubRewardsSkipsChat(r) ==
    /\ ProcessAlive
    /\ spc = "sub_rewards"
    /\ ~cancelled
    /\ IF r = "success"
       THEN /\ spc' = "streaming"
            /\ subscribed' = Append(subscribed, <<"rewards", session[1]>>)
            /\ UNCHANGED <<attemptEnd, sev, session>>
       ELSE AttemptErr("sub_rewards")
    /\ UNCHANGED <<nextEv, attemptFirstEv, sessions, sdk, sdkRxAlive>>
    /\ UNCHANGED <<tokenVars, cancelled, fetchVars, chanVars, consumerVars, appVars, handleVars, ircVars, tagVars, providerVars>>

\* lines 175, 230-270: the reward subscription: a request that fails or a
\* non-success status is an error of the attempt
SupSubRewards(r) ==
    /\ ProcessAlive
    /\ spc = "sub_rewards"
    /\ ~cancelled
    /\ IF r = "success"
       THEN /\ spc' = "sub_chat"
            /\ subscribed' = Append(subscribed, <<"rewards", session[1]>>)
            /\ UNCHANGED <<attemptEnd, sev, session>>
       ELSE AttemptErr("sub_rewards")
    /\ UNCHANGED <<nextEv, attemptFirstEv, sessions, sdk, sdkRxAlive>>
    /\ UNCHANGED <<tokenVars, cancelled, fetchVars, chanVars, consumerVars, appVars, handleVars, ircVars, tagVars, providerVars>>

\* lines 176-181, 272-310: the chat subscription: a non-success status is
\* logged and accepted, a request that fails (.send().await?) is an error
SupSubChat(r) ==
    /\ ProcessAlive
    /\ spc = "sub_chat"
    /\ ~cancelled
    /\ IF r \in {"success", "status_error"}
       THEN /\ spc' = "streaming"
            /\ subscribed' = Append(subscribed, <<"chat", session[1]>>)
            /\ UNCHANGED <<attemptEnd, sev, session>>
       ELSE AttemptErr("sub_chat")
    /\ UNCHANGED <<nextEv, attemptFirstEv, sessions, sdk, sdkRxAlive>>
    /\ UNCHANGED <<tokenVars, cancelled, fetchVars, chanVars, consumerVars, appVars, handleVars, ircVars, tagVars, providerVars>>

\* event_tx.send(event) (426, 446): Err when the receiver is gone, the value
\* buffered when there is room, the sender suspended otherwise
SdkSend(e) ==
    IF ~sdkRxAlive
    THEN AttemptErr("receiver_dropped") /\ UNCHANGED sdk
    ELSE IF Len(sdk) < CHANNEL_BUFFER_SIZE
         THEN /\ sdk' = ChanSend(sdk, e)
              /\ spc' = "streaming"
              /\ sev' = None
              /\ UNCHANGED <<attemptEnd, session, subscribed>>
         ELSE /\ spc' = "sending"
              /\ sev' = Some(e)
              /\ UNCHANGED <<attemptEnd, sdk, session, subscribed>>

\* lines 328-331, 371-373, 403-456: a notification of a subscribed type with
\* a decodable payload becomes a TwitchEvent and is sent on event_tx
SupNotification ==
    /\ ProcessAlive
    /\ spc = "streaming"
    /\ ~cancelled
    /\ nextEv <= evCap
    /\ nextEv' = nextEv + 1
    /\ SdkSend(nextEv)
    /\ UNCHANGED <<attemptFirstEv, sessions, sdkRxAlive>>
    /\ UNCHANGED <<tokenVars, cancelled, fetchVars, chanVars, consumerVars, appVars, handleVars, ircVars, tagVars, providerVars>>

\* the suspended event_tx.send completes
SupSendResumes ==
    /\ ProcessAlive
    /\ spc = "sending"
    /\ ~cancelled
    /\ ~sdkRxAlive \/ Len(sdk) < CHANNEL_BUFFER_SIZE
    /\ SdkSend(sev[1])
    /\ UNCHANGED <<nextEv, attemptFirstEv, sessions, sdkRxAlive>>
    /\ UNCHANGED <<tokenVars, cancelled, fetchVars, chanVars, consumerVars, appVars, handleVars, ircVars, tagVars, providerVars>>

\* lines 328-344, 350-387: the read loop returns Err(why)
SupStreamError(why) ==
    /\ ProcessAlive
    /\ spc = "streaming"
    /\ ~cancelled
    /\ AttemptErr(why)
    /\ UNCHANGED <<nextEv, attemptFirstEv, sessions, sdk, sdkRxAlive>>
    /\ UNCHANGED <<tokenVars, cancelled, fetchVars, chanVars, consumerVars, appVars, handleVars, ircVars, tagVars, providerVars>>

\* lines 336-339, 127: the stream ends: run_lifecycle returns Ok(()), the
\* select! arm does nothing and the loop goes round
SupStreamEnd ==
    /\ ProcessAlive
    /\ spc = "streaming"
    /\ ~cancelled
    /\ spc' = "select"
    /\ attemptEnd' = "ok"
    /\ session' = None
    /\ subscribed' = <<>>
    /\ UNCHANGED <<sev, nextEv, attemptFirstEv, sessions, sdk, sdkRxAlive>>
    /\ UNCHANGED <<tokenVars, cancelled, fetchVars, chanVars, consumerVars, appVars, handleVars, ircVars, tagVars, providerVars>>

\* lines 127-133: the attempt ended with Err: break when cancellation has
\* been requested, otherwise log and sleep RECONNECT_DELAY_SECS
SupAfterErr ==
    /\ ProcessAlive
    /\ spc = "failed"
    /\ spc' = IF cancelled THEN "stopped" ELSE "sleep"
    /\ UNCHANGED <<sev, attemptEnd, nextEv, attemptFirstEv, sessionVars, sdk, sdkRxAlive>>
    /\ UNCHANGED <<tokenVars, cancelled, fetchVars, chanVars, consumerVars, appVars, handleVars, ircVars, tagVars, providerVars>>

\* line 133: the sleep (which is not part of the select!) ends
SupWake ==
    /\ ProcessAlive
    /\ spc = "sleep"
    /\ (timed /\ cancelled) => sleepLeft = 0
    /\ spc' = "select"
    /\ UNCHANGED <<sev, attemptEnd, nextEv, attemptFirstEv, sessionVars, sdk, sdkRxAlive>>
    /\ UNCHANGED <<tokenVars, cancelled, fetchVars, chanVars, consumerVars, appVars, handleVars, ircVars, tagVars, providerVars>>

SupStep ==
    \/ SupSelect
    \/ SupCancelled
    \/ \E ok \in BOOLEAN : SupConnect(ok)
    \/ \E ok \in BOOLEAN : SupWelcome(ok)
    \/ SupTokenReturned
    \/ \E r \in {"success", "status_error", "send_error"} : SupSubRewards(r)
    \/ \E r \in {"success", "status_error", "send_error"} : SupSubChat(r)
    \/ SupNotification
    \/ SupSendResumes
    \/ \E why \in StreamErrors : SupStreamError(why)
    \/ SupStreamEnd
    \/ SupAfterErr
    \/ SupWake

(***************************************************************************)
(* TwitchFetcher: the forwarding task spawned by fetch()                   *)
(* (twitch_adapter.rs:87-114)                                              *)
(***************************************************************************)
\* mutant: a clone of tx outlives the task, the channel stays open
FwdEndsKeepsTx ==
    /\ fpc' = "stopped"
    /\ fev' = None
    /\ sdk' = <<>>
    /\ sdkRxAlive' = FALSE
    /\ fchTxAlive' = fchTxAlive

\* the task ends: sdk_rx (with what it buffers) and tx are dropped
FwdEnds ==
    /\ fpc' = "stopped"
    /\ fev' = None
    /\ sdk' = <<>>
    /\ sdkRxAlive' = FALSE
    /\ fchTxAlive' = FALSE

\* mutant: tx.try_send: an event that finds the channel full is dropped
FetchSendDropsWhenFull(e) ==
    IF ~fchRxAlive
    THEN FwdEnds /\ UNCHANGED <<fch, fchSent>>
    ELSE IF Len(fch) < FETCH_CHANNEL_SIZE
         THEN /\ fch' = ChanSend(fch, e)
              /\ fchSent' = fchSent \cup {e}
              /\ fpc' = "select"
              /\ fev' = None
              /\ UNCHANGED <<sdkRxAlive, fchTxAlive>>
         ELSE /\ fpc' = "select"
              /\ fev' = None
              /\ UNCHANGED <<fch, fchSent, sdkRxAlive, fchTxAlive>>

\* tx.send(event) (line 101) of event e
FetchSend(e) ==
    IF ~fchRxAlive
    THEN FwdEnds /\ UNCHANGED <<fch, fchSent>>
    ELSE IF Len(fch) < FETCH_CHANNEL_SIZE
         THEN /\ fch' = ChanSend(fch, e)
              /\ fchSent' = fchSent \cup {e}
              /\ fpc' = "select"
              /\ fev' = None
              /\ UNCHANGED <<sdkRxAlive, fchTxAlive>>
         ELSE /\ fpc' = "sending"
              /\ fev' = Some(e)
              /\ UNCHANGED <<fch, fchSent, sdkRxAlive, fchTxAlive>>

\* lines 92-95, 106-109: cancellation is observed, or the SDK channel is
\* closed and empty: break
FwdStops ==
    /\ ProcessAlive
    /\ fpc = "select"
    /\ cancelled \/ (sdk = <<>> /\ ~SdkTxAlive)
    /\ FwdEnds
    /\ UNCHANGED <<fch, fchRxAlive, fchSent>>
    /\ UNCHANGED <<spc, sev, attemptEnd, nextEv, attemptFirstEv, sessionVars>>
    /\ UNCHANGED <<tokenVars, cancelled, consumerVars, appVars, handleVars, ircVars, tagVars, providerVars>>

\* lines 97-105: sdk_rx.recv() yields an event, it is converted and sent on
FwdRecv ==
    /\ ProcessAlive
    /\ fpc = "select"
    /\ ~cancelled
    /\ sdk # <<>>
    /\ IF fchRxAlive
       THEN sdk' = ChanPop(sdk) /\ FetchSend(ChanFront(sdk))
       ELSE FetchSend(ChanFront(sdk))
    /\ UNCHANGED fchRxAlive
    /\ UNCHANGED <<spc, sev, attemptEnd, nextEv, attemptFirstEv, sessionVars>>
    /\ UNCHANGED <<tokenVars, cancelled, consumerVars, appVars, handleVars, ircVars, tagVars, providerVars>>

\* the suspended tx.send completes (it is not part of the select!, so
\* cancellation does not interrupt it)
FwdSendResumes ==
    /\ ProcessAlive
    /\ fpc = "sending"
    /\ ~fchRxAlive \/ Len(fch) < FETCH_CHANNEL_SIZE
    /\ IF fchRxAlive THEN UNCHANGED sdk ELSE TRUE
    /\ FetchSend(fev[1])
    /\ UNCHANGED fchRxAlive
    /\ UNCHANGED <<spc, sev, attemptEnd, nextEv, attemptFirstEv, sessionVars>>
    /\ UNCHANGED <<tokenVars, cancelled, consumerVars, appVars, handleVars, ircVars, tagVars, providerVars>>

FwdStep ==
    \/ FwdStops
    \/ FwdRecv
    \/ FwdSendResumes

(***************************************************************************)
(* App::run (app.rs:38-68) with TwitchFetcher::shutdown                    *)
(* (twitch_adapter.rs:63-67) and EventSubClient::shutdown (143-150)        *)
(***************************************************************************)
\* lines 48-51: fetch() spawns the supervisor (connect) and the forwarding
\* task, then consume is spawned on the returned receiver
AppRun ==
    /\ apc = "start"
    /\ apc' = "wait_signal"
    /\ spc' = "select"
    /\ fpc' = "select"
    /\ cpc' = "recv"
    /\ UNCHANGED <<sev, attemptEnd, nextEv, attemptFirstEv, sessionVars, sdk, sdkRxAlive, fev, appResult>>
    /\ UNCHANGED <<timeVars, handleVars, ircVars, tagVars, providerVars>>
    /\ UNCHANGED <<cev, permits, task, handled, received, recvAfterClose>>
    /\ UNCHANGED <<tokenVars, cancelled, chanVars>>

\* lines 53-55: the signal arrives; shutdown() cancels the token and awaits
\* the supervisor's JoinHandle
AppSignal ==
    /\ apc = "wait_signal"
    /\ cancelled' = TRUE
    /\ apc' = "join_client"
    /\ IF timed /\ spc = "sleep"
       THEN sleepLeft' \in 1..RECONNECT_DELAY_SECS /\ asleepAtSignal' = TRUE
       ELSE sleepLeft' = 0 /\ UNCHANGED asleepAtSignal
    /\ UNCHANGED <<appResult, timed, evCap, sinceSignal, deadlineLeft, handleVars, ircVars, tagVars, providerVars>>
    /\ UNCHANGED <<tokenVars, clientVars, fetchVars, chanVars, consumerVars>>

\* mutant: shutdown() returns without awaiting the supervisor's JoinHandle
AppJoinedNoAwait ==
    /\ apc = "join_client"
    /\ apc' = "wait_consumer"
    /\ deadlineLeft' = IF timed THEN SHUTDOWN_TIMEOUT_SECS ELSE 0
    /\ UNCHANGED <<appResult, timed, evCap, sinceSignal, asleepAtSignal, sleepLeft, handleVars, ircVars, tagVars, providerVars>>
    /\ UNCHANGED <<tokenVars, cancelled, clientVars, fetchVars, chanVars, consumerVars>>

\* eventsub/client.rs:145-147: the supervisor task has ended; shutdown()
\* returns and run waits for consume under SHUTDOWN_TIMEOUT (line 57)
AppJoined ==
    /\ apc = "join_client"
    /\ spc = "stopped"
    /\ apc' = "wait_consumer"
    /\ deadlineLeft' = IF timed THEN SHUTDOWN_TIMEOUT_SECS ELSE 0
    /\ UNCHANGED <<appResult, timed, evCap, sinceSignal, asleepAtSignal, sleepLeft, handleVars, ircVars, tagVars, providerVars>>
    /\ UNCHANGED <<tokenVars, cancelled, clientVars, fetchVars, chanVars, consumerVars>>

\* lines 58-61: consume returned within the deadline
AppGraceful ==
    /\ apc = "wait_consumer"
    /\ cpc = "returned"
    /\ apc' = "returned"
    /\ appResult' = "graceful"
    /\ UNCHANGED <<timeVars, handleVars, ircVars, tagVars, providerVars>>
    /\ UNCHANGED <<tokenVars, cancelled, clientVars, fetchVars, chanVars, consumerVars>>

\* mutant: the elapsed deadline is returned as an error (timeout(..).await?)
AppDeadlineIsError ==
    /\ apc = "wait_consumer"
    /\ cpc # "returned"
    /\ timed => deadlineLeft = 0
    /\ apc' = "returned"
    /\ appResult' = "error"
    /\ UNCHANGED <<timeVars, handleVars, ircVars, tagVars, providerVars>>
    /\ UNCHANGED <<tokenVars, cancelled, clientVars, fetchVars, chanVars, consumerVars>>

\* lines 62-67: SHUTDOWN_TIMEOUT elapsed first: logged, run returns Ok
AppDeadline ==
    /\ apc = "wait_consumer"
    /\ cpc # "returned"
    /\ timed => deadlineLeft = 0
    /\ apc' = "returned"
    /\ appResult' = "forced"
    /\ UNCHANGED <<timeVars, handleVars, ircVars, tagVars, providerVars>>
    /\ UNCHANGED <<tokenVars, cancelled, clientVars, fetchVars, chanVars, consumerVars>>

AppStep ==
    \/ AppRun
    \/ AppSignal
    \/ AppJoined
    \/ AppGraceful
    \/ AppDeadline

(***************************************************************************)
(* Time after the shutdown signal.  One Tick is one second.  Every task is  *)
(* polled as soon as it is ready (its steps take no time); what takes time  *)
(* is the reconnect sleep (client.rs:133), which has between 1 and          *)
(* RECONNECT_DELAY_SECS seconds left when the signal arrives, the wait for  *)
(* consume under SHUTDOWN_TIMEOUT (app.rs:57), and a handler that is        *)
(* running, which may take any time (a handler that blocks its thread is    *)
(* not ended by timeout(HANDLER_TIMEOUT, ..) either).                       *)
(***************************************************************************)
\* a task is ready: its step is taken before the clock advances
Urgent ==
    \/ cancelled /\ spc \in InAttempt \cup {"select", "failed"}
    \/ spc = "sleep" /\ sleepLeft = 0
    \/ fpc = "select" /\ (cancelled \/ sdk # <<>> \/ ~SdkTxAlive)
    \/ fpc = "sending" /\ (~fchRxAlive \/ Len(fch) < FETCH_CHANNEL_SIZE)
    \/ cpc = "recv" /\ (fch # <<>> \/ ~fchTxAlive)
    \/ cpc = "acquire" /\ permits > 0
    \/ cpc = "drain" /\ permits = BUFFER_SIZE
    \/ \E e \in Events : task[e] = "spawned"
    \/ apc = "join_client" /\ spc = "stopped"
    \/ apc = "wait_consumer" /\ (cpc = "returned" \/ deadlineLeft = 0)

\* one second passes while the sleep or the shutdown deadline is pending
Tick ==
    /\ ProcessAlive
    /\ timed
    /\ cancelled
    /\ ~Urgent
    /\ \/ spc = "sleep" /\ sleepLeft > 0
       \/ apc = "wait_consumer" /\ deadlineLeft > 0
    /\ sinceSignal' = sinceSignal + 1
    /\ sleepLeft' = IF spc = "sleep" THEN sleepLeft - 1 ELSE sleepLeft
    /\ deadlineLeft' = IF apc = "wait_consumer" THEN deadlineLeft - 1 ELSE deadlineLeft
    /\ UNCHANGED <<apc, appResult, timed, evCap, asleepAtSignal, handleVars, ircVars, tagVars, providerVars>>
    /\ UNCHANGED <<tokenVars, cancelled, clientVars, fetchVars, chanVars, consumerVars>>

(***************************************************************************)
(* SpecPipeline: the program as main wires it (main.rs:13-29):             *)
(* TwitchFetcher::new has built the TokenManager without rotation callback *)
(* and spawned its background loop; App::run is about to be called.  The   *)
(* background loop shares only the TokenManager with the pipeline, which   *)
(* sees of it what get_token returns; its steps are interleaved with       *)
(* get_token in SpecToken and are not taken here.                          *)
(***************************************************************************)
InitPipeline ==
    /\ TokenInit({}, TRUE, FALSE, PlainProvider)
    /\ ClientOff
    /\ ChannelInit
    /\ IrcOff
    /\ TagsOff
    /\ ConsumerInit("off")
    /\ apc = "start"
    /\ appResult = "none"
    /\ TimeInit(FALSE, MaxPipelineEvents)
    /\ HandleOff

NextPipeline ==
    \/ AppStep
    \/ SupStep
    \/ GetTokenStep(ClientCaller)
    \/ FwdStep
    \/ ConsumerStep
    \/ \E e \in Events : TaskStep(e)

SpecPipeline ==
    InitPipeline /\ [][NextPipeline]_vars

(***************************************************************************)
(* SpecTimed: the same program with the seconds after the shutdown signal  *)
(* counted, on a feed that delivers MaxTimedEvents notifications.  That is *)
(* fewer than either channel holds, so no send is ever suspended and the   *)
(* steps that resume a suspended send are not among its steps.             *)
(***************************************************************************)
InitTimed ==
    /\ TokenInit({}, TRUE, FALSE, PlainProvider)
    /\ ClientOff
    /\ ChannelInit
    /\ IrcOff
    /\ TagsOff
    /\ ConsumerInit("off")
    /\ apc = "start"
    /\ appResult = "none"
    /\ TimeInit(TRUE, MaxTimedEvents)
    /\ HandleOff

\* the steps of the supervisor loop without SupSendResumes
SupTimedStep ==
    \/ SupSelect
    \/ SupCancelled
    \/ \E ok \in BOOLEAN : SupConnect(ok)
    \/ \E ok \in BOOLEAN : SupWelcome(ok)
    \/ SupTokenReturned
    \/ \E r \in {"success", "status_error", "send_error"} : SupSubRewards(r)
    \/ \E r \in {"success", "status_error", "send_error"} : SupSubChat(r)
    \/ SupNotification
    \/ \E why \in StreamErrors : SupStreamError(why)
    \/ SupStreamEnd
    \/ SupAfterErr
    \/ SupWake

\* the steps of the forwarding task without FwdSendResumes
FwdTimedStep ==
    \/ FwdStops
    \/ FwdRecv

NextTimed ==
    \/ AppStep
    \/ Tick
    \/ SupTimedStep
    \/ GetTokenStep(ClientCaller)
    \/ FwdTimedStep
    \/ ConsumerStep
    \/ \E e \in Events : TaskStep(e)

SpecTimed ==
    InitTimed /\ [][NextTimed]_vars

\* every task that is ready is polled and time advances; nothing is assumed
\* of the feed, of the provider or of the handlers (a handler may run for
\* ever and need not be ended by its timeout)
FairTimed ==
    /\ SpecTimed
    /\ WF_vars(AppStep)
    /\ WF_vars(Tick)
    /\ WF_vars(SupCancelled)
    /\ WF_vars(SupAfterErr)
    /\ WF_vars(SupWake)
    /\ WF_vars(FwdTimedStep)
    /\ WF_vars(ConsumerStep)
    /\ \A e \in Events : WF_vars(TaskStart(e))

(***************************************************************************)
(* Claims about the pipeline (SpecPipeline)                                *)
(***************************************************************************)
\* The protocol client numbers the events in the order in which it produces
\* them (nextEv), so "a was produced before b" is a < b.

C9_AuthErrorNeverSurfaces ==
    attemptEnd # "auth"

\* C9 amended: get_token hands a failed refresh to its caller (only the
\* background loop retries by itself): the connection attempt that called it
\* ends with that error without subscribing or streaming, and the error goes
\* no further: the supervisor sleeps RECONNECT_DELAY_SECS and starts a new
\* attempt, or stops if cancellation was requested; the forwarder, the
\* channels, the Dispatcher and App::run are left as they were.
C9_AuthErrorEndsAttemptOnly ==
    /\ [][(spc = "get_token" /\ tpc[ClientCaller] = "done" /\ tresult[ClientCaller] = <<"err">>)
            => spc' \in {"get_token", "failed", "stopped"}]_vars
    /\ [][(spc = "get_token" /\ spc' = "failed") =>
            (attemptEnd' = "auth" /\ tresult[ClientCaller] = <<"err">>)]_vars
    /\ [][(spc = "failed" /\ spc' # "failed") =>
            \/ spc' = "sleep" /\ ~cancelled
            \/ spc' = "stopped" /\ cancelled]_vars
    /\ [][(spc = "sleep" /\ spc' # "sleep") => spc' = "select"]_vars
    /\ [][(spc = "get_token" /\ spc' = "failed") =>
            UNCHANGED <<cancelled, sdk, sdkRxAlive, fetchVars, chanVars,
                        consumerVars, appVars, handleVars, ircVars, tagVars, providerVars>>]_vars

\* an attempt ended with the get_token error and the supervisor went on to a
\* new attempt
C9_Witness ==
    /\ attemptEnd = "auth"
    /\ spc = "sleep"
    /\ tresult[ClientCaller] = <<"err">>

(***************************************************************************)
(* SpecDrain: shutdown of a pipeline under load.  It starts where the      *)
(* first connection attempt of SpecPipeline has subscribed and is          *)
(* streaming (the token obtained by get_token is cached), App::run waits   *)
(* for the signal, and the feed delivers MaxDrainEvents notifications      *)
(* without failing; SHUTDOWN_TIMEOUT does not elapse before consume        *)
(* returns.                                                                *)
(***************************************************************************)
\* the state of the TokenManager and of the supervisor once the first
\* attempt streams: get_token has refreshed and returned the token
StreamingFirstAttempt ==
    /\ current_token = Some(FormatToken("a1"))
    /\ refresh_token = "r0"
    /\ init_lock = None
    /\ on_rotation = FALSE
    /\ provider = PlainProvider
    /\ on_rotation_log = {}
    /\ tpc = [t \in TokenTasks |-> IF t = BgTask THEN "refresh" ELSE "off"]
    /\ tloc = [t \in TokenTasks |-> NoLoc]
    /\ tresult = [t \in TokenTasks |->
                     IF t = ClientCaller THEN <<"ok", FormatToken("a1")>> ELSE <<>>]
    /\ refreshed = {ClientCaller}
    /\ sawEmpty = {ClientCaller}
    /\ bgSleep = 0
    /\ issued = <<>>
    /\ cancelled = FALSE
    /\ spc = "streaming"
    /\ sev = None
    /\ attemptEnd = "none"
    /\ nextEv = 1
    /\ attemptFirstEv = 1
    /\ sdk = <<>>
    /\ sdkRxAlive = TRUE
    /\ sessions = OneSession
    /\ session = Some("s1")
    /\ subscribed = <<<<"rewards", "s1">>, <<"chat", "s1">>>>
    /\ fpc = "select"
    /\ fev = None
    /\ apc = "wait_signal"
    /\ appResult = "none"

InitDrain ==
    /\ StreamingFirstAttempt
    /\ ChannelInit
    /\ IrcOff
    /\ TagsOff
    /\ ConsumerInit("recv")
    /\ TimeInit(FALSE, MaxDrainEvents)
    /\ HandleOff

NextDrain ==
    \/ AppSignal
    \/ AppJoined
    \/ AppGraceful
    \/ SupNotification
    \/ SupSendResumes
    \/ SupCancelled
    \/ FwdStep
    \/ ConsumerStep
    \/ \E e \in Events : TaskStep(e)

SpecDrain ==
    InitDrain /\ [][NextDrain]_vars

\* a poll of a task that is ready, or the timer of
\* timeout(HANDLER_TIMEOUT, ..) firing
DrainPolled ==
    \/ AppJoined
    \/ AppGraceful
    \/ SupCancelled
    \/ FwdStep
    \/ ConsumerStep
    \/ \E e \in Events : TaskStart(e) \/ TaskTimeout(e)

\* the scheduler does not stop while a task is ready or a handler timeout is
\* pending; nothing is assumed of the feed, of the moment of the signal or
\* of the handlers (a handler may never return)
FairDrain ==
    /\ SpecDrain
    /\ WF_vars(DrainPolled)

\* C13: once shutdown() has set the cancellation, the sender of the Fetcher
\* channel is eventually dropped and consume eventually returns, whatever the
\* pipeline was doing (forwarding task suspended in tx.send on a full
\* channel, every permit in use, consume waiting for a permit): consume
\* eventually returns, and it has never left its receive loop while the
\* sender of the channel was alive or an event was buffered.
C13_ShutdownClosesAndDrains ==
    /\ [](cancelled => <>(cpc = "returned"))
    /\ [](cpc \in {"drain", "returned"} => (~fchTxAlive /\ fch = <<>>))

\* shutdown() has just been invoked while the forwarding task is suspended
\* sending into the full channel and every permit is in use
C13_Witness ==
    /\ cancelled
    /\ fpc = "sending"
    /\ Len(fch) = FETCH_CHANNEL_SIZE
    /\ permits = 0
    /\ Cardinality(Running) = BUFFER_SIZE
    /\ fchTxAlive

(***************************************************************************)
(* Claims about shutdown (SpecTimed)                                       *)
(***************************************************************************)
\* C11 as stated: when the signal arrives while the supervisor loop is asleep
\* in its reconnect backoff, the only steps the loop takes afterwards are
\* the end of the sleep and the cancellation branch of the select! (no new
\* connection attempt), and App::run has returned within SHUTDOWN_TIMEOUT
\* seconds of the signal.
C11_StopsAndReturnsWithinDeadline ==
    /\ [][(asleepAtSignal /\ spc' # spc) =>
            \/ spc = "sleep" /\ spc' = "select"
            \/ spc = "select" /\ spc' = "stopped"]_vars
    /\ []((asleepAtSignal /\ apc = "returned") => sinceSignal <= SHUTDOWN_TIMEOUT_SECS)

\* C12: once the signal has arrived the cancellation is set (shutdown() was
\* invoked) before run waits for consume; that wait lasts at most
\* SHUTDOWN_TIMEOUT seconds and ends either because consume returned or
\* because the deadline elapsed; run always returns after the signal, also
\* with a handler that never returns, and what it returns is Ok in both cases.
C12_DeadlineBoundsTheWait ==
    /\ [](apc \in {"join_client", "wait_consumer", "returned"} => cancelled)
    /\ [](apc = "wait_consumer" => deadlineLeft \in 0..SHUTDOWN_TIMEOUT_SECS)
    /\ [][(apc = "wait_consumer" /\ apc' = "returned") =>
            \/ cpc = "returned" /\ appResult' = "graceful"
            \/ cpc # "returned" /\ deadlineLeft = 0 /\ appResult' = "forced"]_vars
    /\ [](apc = "returned" => appResult \in {"graceful", "forced"})
    /\ [](cancelled => <>(apc = "returned"))

\* the deadline elapsed with a handler still running and run returned
C12_Witness ==
    /\ apc = "returned"
    /\ appResult = "forced"
    /\ deadlineLeft = 0
    /\ \E e \in Events : task[e] = "running"

\* C14: once shutdown() has returned (run is past the await of line 55) the
\* cancellation is set and the supervisor task has ended; from then on the
\* supervisor starts no attempt, takes no notification from the feed and
\* sends nothing on the SDK channel.
C14_SupervisorStoppedAtReturn ==
    /\ [](apc \in {"wait_consumer", "returned"} => (cancelled /\ spc = "stopped"))
    /\ [][(apc \in {"wait_consumer", "returned"})
            => (UNCHANGED <<spc, sev, attemptEnd, nextEv, attemptFirstEv, sessionVars>>
                /\ Len(sdk') <= Len(sdk))]_vars

\* C14 witness: shutdown() has returned after the supervisor had delivered
\* notifications, one of which is still buffered in the SDK channel.
C14_Witness ==
    /\ apc = "wait_consumer"
    /\ spc = "stopped"
    /\ nextEv > 1
    /\ sdk # <<>>


(***************************************************************************)
(* SpecTasks: the shutdown of the running pipeline together with the       *)
(* TokenManager's background loop, which with_cancel_token starts          *)
(* (twitch_adapter.rs:42) and whose JoinHandle it drops.  The state is     *)
(* that of InitDrain with a feed of MaxTimedEvents notifications.          *)
(***************************************************************************)
InitTasks ==
    /\ StreamingFirstAttempt
    /\ ChannelInit
    /\ IrcOff
    /\ TagsOff
    /\ ConsumerInit("recv")
    /\ TimeInit(FALSE, MaxTimedEvents)
    /\ HandleOff

NextTasks ==
    \/ AppSignal
    \/ AppJoined
    \/ AppGraceful
    \/ SupNotification
    \/ SupCancelled
    \/ FwdTimedStep
    \/ ConsumerStep
    \/ \E e \in Events : TaskStep(e)
    \/ BgStep

SpecTasks ==
    InitTasks /\ [][NextTasks]_vars

\* every ready task is polled, the timers of the handler timeouts and of the
\* background loop's sleep fire, and the provider answers every request
FairTasks ==
    /\ SpecTasks
    /\ WF_vars(DrainPolled)
    /\ WF_vars(BgStep)

\* the tasks the pipeline started have all ended
AllTasksEnded ==
    /\ spc = "stopped"
    /\ fpc = "stopped"
    /\ InFlight = {}
    /\ tpc[BgTask] \notin {"refresh", "request", "rotate", "sleep"}

\* C15: after the cancellation is set and the Fetcher channel is closed,
\* every task of the pipeline (background token loop, supervisor, forwarding
\* task, dispatch units) eventually ends.
C15_EveryTaskStops ==
    [](cancelled /\ ~fchTxAlive => <>AllTasksEnded)

(***************************************************************************)
(* SpecClient: the EventSubClient and the Fetcher's forwarding task when   *)
(* the receiver returned by fetch() is held by any EventConsumer           *)
(* (domain/consumer.rs:7-9): it takes events and may return, dropping the  *)
(* receiver, at any moment.  The forwarding task then breaks at            *)
(* twitch_adapter.rs:101-104 and drops the SDK receiver without any        *)
(* cancellation.                                                           *)
(***************************************************************************)
\* ch.recv() in some EventConsumer yields the oldest buffered event
AnyConsumerRecv ==
    /\ ProcessAlive
    /\ cpc = "recv"
    /\ fchRxAlive
    /\ fch # <<>>
    /\ fch' = ChanPop(fch)
    /\ UNCHANGED <<fchTxAlive, fchRxAlive, fchSent>>
    /\ UNCHANGED <<tokenVars, cancelled, clientVars, fetchVars, consumerVars, appVars, handleVars, ircVars, tagVars, providerVars>>

\* consume returns: the receiver and what it buffers are dropped
AnyConsumerReturns ==
    /\ ProcessAlive
    /\ cpc = "recv"
    /\ fchRxAlive
    /\ fchRxAlive' = FALSE
    /\ fch' = <<>>
    /\ UNCHANGED <<fchTxAlive, fchSent>>
    /\ UNCHANGED <<tokenVars, cancelled, clientVars, fetchVars, consumerVars, appVars, handleVars, ircVars, tagVars, providerVars>>

NextClient ==
    \/ AppRun
    \/ AppSignal
    \/ AppJoined
    \/ SupStep
    \/ GetTokenStep(ClientCaller)
    \/ FwdStep
    \/ AnyConsumerRecv
    \/ AnyConsumerReturns

SpecClient ==
    InitPipeline /\ [][NextClient]_vars

\* C16: when event_tx.send fails because the receiver is gone, the streaming
\* loop has ended and the supervisor goes from there to its end only: it
\* neither sleeps nor starts another connection attempt.
C16_ReceiverGoneStopsForGood ==
    /\ [](attemptEnd = "receiver_dropped" => spc \in {"failed", "stopped"})
    /\ [][(spc = "failed" /\ attemptEnd = "receiver_dropped")
            => spc' \in {"failed", "stopped"}]_vars

(***************************************************************************)
(* Handler::handle (trait Handler): one call at a time on one Event.       *)
(* The specifications below leave the pipeline unstarted.                  *)
(***************************************************************************)
nonHandleVars ==
    <<tokenVars, cancelled, clientVars, fetchVars, chanVars, consumerVars, appVars, ircVars, tagVars, providerVars>>

\* nothing of the pipeline has been started
PipelineOff ==
    /\ TokenInit({}, FALSE, FALSE, PlainProvider)
    /\ ClientOff
    /\ ChannelInit
    /\ IrcOff
    /\ ConsumerInit("off")
    /\ apc = "off"
    /\ appResult = "none"
    /\ timed = FALSE
    /\ evCap = MaxPipelineEvents
    /\ sinceSignal = 0
    /\ asleepAtSignal = FALSE
    /\ sleepLeft = 0
    /\ deadlineLeft = 0

\* the result of the call that returned last
LastResult ==
    hresult[Len(hresult)]

\* what a handler registered by the caller may return
HandlerResults ==
    {<<"ok">>, <<"err", "handler">>}

(***************************************************************************)
(* BaseRouter (router.rs)                                                  *)
(***************************************************************************)
\* enum Route (lines 10-16)
Route ==
    {"Message", "Command", "ChannelPointRedemption", "Donation"}

\* mutant: System events have no Route of their own and go to Donation
RouteOfSystemElsewhere(k) ==
    CASE k.type = "ChatMessage" -> "Message"
      [] k.type = "Command" -> "Command"
      [] k.type = "RewardRedemption" -> "ChannelPointRedemption"
      [] k.type = "Donation" -> "Donation"
      [] k.type = "System" -> "Donation"

\* From<&Event> for Route (lines 18-28)
RouteOf(k) ==
    CASE k.type = "ChatMessage" -> "Message"
      [] k.type = "Command" -> "Command"
      [] k.type = "RewardRedemption" -> "ChannelPointRedemption"
      [] k.type = "Donation" -> "Donation"
      [] k.type = "System" -> "Message"

\* the handlers a caller registers with BaseRouter::route
HandlerIds ==
    {"h1", "h2"}

\* the tables BaseRouter::new().route(..).route(..) can build
RouteTables ==
    [Route -> {None} \cup {Some(h) : h \in HandlerIds}]

\* one EventKind of each variant (models.rs:91-118)
SampleKinds ==
    {[type |-> "ChatMessage", text |-> <<"a">>],
     [type |-> "Command", name |-> <<"a">>, args |-> <<>>],
     [type |-> "RewardRedemption"],
     [type |-> "Donation"],
     [type |-> "System"]}

\* the error of line 61
RoutingError ==
    <<"err", "no handler for route">>

\* lines 57-62: the Route of the event is looked up: the registered handler
\* is invoked, or the routing error is returned
RouterHandle ==
    /\ hpc = "start"
    /\ LET h == routes[RouteOf(kind[1])] IN
         IF h = None
         THEN /\ hpc' = "returned"
              /\ hresult' = Append(hresult, RoutingError)
              /\ UNCHANGED invoked
         ELSE /\ hpc' = "in_handler"
              /\ invoked' = Append(invoked, [h |-> h[1], res |-> None])
              /\ UNCHANGED hresult
    /\ UNCHANGED <<text, kind, role, required, routes>>
    /\ UNCHANGED nonHandleVars

\* mutant: the handler's error is logged and Ok(()) is returned
RouterReturnsSwallowsErr(r) ==
    /\ hpc = "in_handler"
    /\ hpc' = "returned"
    /\ invoked' = [invoked EXCEPT ![Len(invoked)].res = Some(r)]
    /\ hresult' = Append(hresult, <<"ok">>)
    /\ UNCHANGED <<text, kind, role, required, routes>>
    /\ UNCHANGED nonHandleVars

\* line 60: handler.handle(event).await is the value of handle
RouterReturns(r) ==
    /\ hpc = "in_handler"
    /\ hpc' = "returned"
    /\ invoked' = [invoked EXCEPT ![Len(invoked)].res = Some(r)]
    /\ hresult' = Append(hresult, r)
    /\ UNCHANGED <<text, kind, role, required, routes>>
    /\ UNCHANGED nonHandleVars

\* consumer.rs:43-48: the next event is given to the same router
RouterNextEvent(k) ==
    /\ hpc = "returned"
    /\ Len(hresult) < MaxCalls
    /\ kind' = Some(k)
    /\ hpc' = "start"
    /\ invoked' = <<>>
    /\ UNCHANGED <<text, role, required, routes, hresult>>
    /\ UNCHANGED nonHandleVars

(***************************************************************************)
(* SpecRouter: a BaseRouter with any route table handles MaxCalls events   *)
(* of any kind, one after the other.                                       *)
(***************************************************************************)
InitRouter ==
    /\ PipelineOff
    /\ TagsOff
    /\ text = <<>>
    /\ kind \in {Some(k) : k \in SampleKinds}
    /\ role = 0
    /\ required = 0
    /\ routes \in RouteTables
    /\ hpc = "start"
    /\ hresult = <<>>
    /\ invoked = <<>>

NextRouter ==
    \/ RouterHandle
    \/ \E r \in HandlerResults : RouterReturns(r)
    \/ \E k \in SampleKinds : RouterNextEvent(k)

SpecRouter ==
    InitRouter /\ [][NextRouter]_vars

\* C17: handle on an event whose Route has no handler returns the routing
\* error and invokes nothing; on a mapped Route it invokes the registered
\* handler, that one only and once, and returns what the handler returned;
\* the route table never changes, whatever the earlier calls returned.
C17_RouterHandle ==
    /\ [](hpc = "returned" /\ routes[RouteOf(kind[1])] = None
            => (LastResult = RoutingError /\ invoked = <<>>))
    /\ [](hpc = "returned" /\ routes[RouteOf(kind[1])] # None
            => invoked = <<[h |-> routes[RouteOf(kind[1])][1], res |-> Some(LastResult)]>>)
    /\ [](hpc = "in_handler"
            => invoked = <<[h |-> routes[RouteOf(kind[1])][1], res |-> None]>>)
    /\ [][routes' = routes]_vars

\* C17 witness: a routing error was returned for one event and the next
\* event, of a mapped Route, was handled by its handler, which failed
C17_Witness ==
    /\ hpc = "returned"
    /\ Len(hresult) = MaxCalls
    /\ hresult[MaxCalls - 1] = RoutingError
    /\ LastResult = <<"err", "handler">>
    /\ Len(invoked) = 1

(***************************************************************************)
(* Role (domain/models.rs of the bot crate and of the root src tree): a    *)
(* u8 of which four bits are named.                                        *)
(***************************************************************************)
BIT_SUBSCRIBER ==
    1

BIT_VIP ==
    2

BIT_MODERATOR ==
    4

BIT_BROADCASTER ==
    8

PLEB ==
    0

SUBSCRIBER ==
    BIT_SUBSCRIBER

VIP ==
    BIT_VIP + SUBSCRIBER

MODERATOR ==
    BIT_MODERATOR + VIP

BROADCASTER ==
    BIT_BROADCASTER + MODERATOR

\* every value Role::add can build from the four bits
Roles ==
    0..(2 * BIT_BROADCASTER - 1)

\* a & b on u8
RECURSIVE BitAnd(_, _)
BitAnd(a, b) ==
    IF a = 0 \/ b = 0
    THEN 0
    ELSE (a % 2) * (b % 2) + 2 * BitAnd(a \div 2, b \div 2)

\* bot crate, models.rs:37-39: (self.0 & other.0) == other.0
Contains(a, b) ==
    BitAnd(a, b) = b

\* root src tree, models.rs:38-40: (self.0 & flag) != 0
LegacyContains(a, flag) ==
    BitAnd(a, flag) # 0

\* bit i of x (bit 0 is the lowest)
BitOf(x, i) ==
    (x \div (2 ^ i)) % 2

\* every bit that is set in b is set in a
HasEveryBit(a, b) ==
    \A i \in 0..7 : BitOf(b, i) = 1 => BitOf(a, i) = 1

\* Event::has_role of the bot crate (models.rs:148-150)
HasRole ==
    /\ hpc = "start"
    /\ hpc' = "returned"
    /\ hresult' = Append(hresult, <<"crate", Contains(role, required)>>)
    /\ UNCHANGED <<text, kind, role, required, routes, invoked>>
    /\ UNCHANGED nonHandleVars

\* Event::has_role of the root src tree (models.rs:132-134)
LegacyHasRole ==
    /\ hpc = "start"
    /\ hpc' = "returned"
    /\ hresult' = Append(hresult, <<"legacy", LegacyContains(role, required)>>)
    /\ UNCHANGED <<text, kind, role, required, routes, invoked>>
    /\ UNCHANGED nonHandleVars

(***************************************************************************)
(* SpecRole: has_role / contains of either tree on any two roles.          *)
(***************************************************************************)
InitRole ==
    /\ PipelineOff
    /\ TagsOff
    /\ text = <<>>
    /\ kind = None
    /\ role \in Roles
    /\ required \in Roles
    /\ routes = <<>>
    /\ hpc = "start"
    /\ hresult = <<>>
    /\ invoked = <<>>

NextRole ==
    \/ HasRole
    \/ LegacyHasRole

SpecRole ==
    InitRole /\ [][NextRole]_vars

\* C19: a.contains(b) is true exactly when every bit of b is set in a, in
\* both implementations; BROADCASTER contains MODERATOR, MODERATOR does not
\* contain BROADCASTER, SUBSCRIBER contains PLEB.
C19_ContainsIsEveryBit ==
    hpc = "returned" => LastResult[2] = HasEveryBit(role, required)

(***************************************************************************)
(* AuthMiddleware (root src tree, router/middleware/auth_middleware.rs)    *)
(* around an inner handler                                                 *)
(***************************************************************************)
\* make_permission_error (lines 31-37)
PermissionDenied ==
    <<"err", "permission denied">>

\* lines 22-27: has_role(self.role) decides between the permission error
\* and the inner handler
AuthHandle ==
    /\ hpc = "start"
    /\ IF ~LegacyContains(role, required)
       THEN /\ hpc' = "returned"
            /\ hresult' = Append(hresult, PermissionDenied)
            /\ UNCHANGED invoked
       ELSE /\ hpc' = "in_handler"
            /\ invoked' = Append(invoked, [h |-> "inner", res |-> None])
            /\ UNCHANGED hresult
    /\ UNCHANGED <<text, kind, role, required, routes>>
    /\ UNCHANGED nonHandleVars

\* line 27: self.inner.handle(event).await is the value of handle
AuthInnerReturns(r) ==
    /\ hpc = "in_handler"
    /\ hpc' = "returned"
    /\ invoked' = [invoked EXCEPT ![Len(invoked)].res = Some(r)]
    /\ hresult' = Append(hresult, r)
    /\ UNCHANGED <<text, kind, role, required, routes>>
    /\ UNCHANGED nonHandleVars

(***************************************************************************)
(* SpecAuth: AuthMiddleware::new(inner, required) handles an event of a    *)
(* user with any role.                                                     *)
(***************************************************************************)
InitAuth ==
    /\ PipelineOff
    /\ TagsOff
    /\ text = <<>>
    /\ kind \in {Some(k) : k \in SampleKinds}
    /\ role \in Roles
    /\ required \in Roles
    /\ routes = <<>>
    /\ hpc = "start"
    /\ hresult = <<>>
    /\ invoked = <<>>

NextAuth ==
    \/ AuthHandle
    \/ \E r \in HandlerResults : AuthInnerReturns(r)

SpecAuth ==
    InitAuth /\ [][NextAuth]_vars

\* C18: the inner handler is invoked if and only if the user's role has
\* every bit of the required mask; otherwise the call returns the
\* permission error and the inner handler is not invoked.
C18_InnerIffEveryRequiredBit ==
    /\ hpc # "start" => (invoked # <<>> <=> HasEveryBit(role, required))
    /\ (hpc = "returned" /\ invoked = <<>>) => LastResult = PermissionDenied

(***************************************************************************)
(* Ingestion: From<TwitchEvent> for Event (twitch_adapter.rs:120-163) with *)
(* From<&str> for EventKind (models.rs:120-135).  A text is a sequence of  *)
(* characters.                                                             *)
(***************************************************************************)
\* the characters of the chat texts: '!', two white-space characters and a
\* letter
Chars ==
    {"!", " ", "\t", "a"}

\* char::is_whitespace
Whitespace ==
    {" ", "\t"}

RECURSIVE TextsOfLen(_)
TextsOfLen(n) ==
    IF n = 0
    THEN {<<>>}
    ELSE {Append(t, c) : t \in TextsOfLen(n - 1), c \in Chars}

Texts ==
    UNION {TextsOfLen(n) : n \in 0..MaxTextLen}

\* str::split_whitespace: the maximal runs of characters that are not
\* white space, in order (cur is the run being read, acc the runs read)
RECURSIVE SplitFrom(_, _, _)
SplitFrom(s, cur, acc) ==
    IF s = <<>>
    THEN IF cur = <<>> THEN acc ELSE Append(acc, cur)
    ELSE IF Head(s) \in Whitespace
         THEN SplitFrom(Tail(s), <<>>, IF cur = <<>> THEN acc ELSE Append(acc, cur))
         ELSE SplitFrom(Tail(s), Append(cur, Head(s)), acc)

SplitWhitespace(s) ==
    SplitFrom(s, <<>>, <<>>)

\* str::strip_prefix('!')
StripBang(t) ==
    IF t # <<>> /\ Head(t) = "!" THEN Some(Tail(t)) ELSE None

\* mutant: the command name is all that follows '!'
FromStrNameIsRest(t) ==
    LET rest == StripBang(t) IN
      IF rest = None \/ rest[1] = <<>> \/ SplitWhitespace(rest[1]) = <<>>
      THEN [type |-> "ChatMessage", text |-> t]
      ELSE [type |-> "Command", name |-> rest[1], args |-> <<>>]

\* models.rs:121-134: strip '!', give up on an empty rest, split the rest at
\* white space, the first part is the name and the others the args; without
\* a first part, and in every other case, the text is a ChatMessage
FromStr(t) ==
    LET rest == StripBang(t) IN
      IF rest = None \/ rest[1] = <<>> \/ SplitWhitespace(rest[1]) = <<>>
      THEN [type |-> "ChatMessage", text |-> t]
      ELSE [type |-> "Command",
            name |-> Head(SplitWhitespace(rest[1])),
            args |-> Tail(SplitWhitespace(rest[1]))]

\* the variants of TwitchEvent (types.rs:50-65); no variant reaches the
\* `_` arm of the conversion
TwitchEventVariants ==
    {"ChatMessage", "RewardRedemption"}

\* twitch_adapter.rs:121-161: the Event of a TwitchEvent: the kind of a
\* chat message is computed from its text, a redemption keeps its fields,
\* anything else becomes a System event
Ingest(variant) ==
    /\ hpc = "ingest"
    /\ kind' = Some(CASE variant = "ChatMessage" -> FromStr(text)
                      [] variant = "RewardRedemption" -> [type |-> "RewardRedemption"]
                      [] variant = "Other" -> [type |-> "System"])
    /\ hpc' = "start"
    /\ UNCHANGED <<text, role, required, routes, hresult, invoked>>
    /\ UNCHANGED nonHandleVars

\* main.rs:19-21: the table of the program: Message and Command are routed
MainRoutes ==
    [r \in Route |->
        CASE r = "Message" -> Some("h1")
          [] r = "Command" -> Some("h2")
          [] OTHER -> None]

(***************************************************************************)
(* SpecIngest: a TwitchEvent with any text of at most MaxTextLen           *)
(* characters is converted and given to the program's router.              *)
(***************************************************************************)
InitIngest ==
    /\ PipelineOff
    /\ TagsOff
    /\ text \in Texts
    /\ kind = None
    /\ role = PLEB
    /\ required = PLEB
    /\ routes = MainRoutes
    /\ hpc = "ingest"
    /\ hresult = <<>>
    /\ invoked = <<>>

NextIngest ==
    \/ \E variant \in TwitchEventVariants : Ingest(variant)
    \/ RouterHandle
    \/ \E r \in HandlerResults : RouterReturns(r)

SpecIngest ==
    InitIngest /\ [][NextIngest]_vars

\* what follows the first character of the text
RestOf(t) ==
    SubSeq(t, 2, Len(t))

\* the positions of s at which a white-space-separated token starts
TokenStarts(s) ==
    {i \in 1..Len(s) : s[i] \notin Whitespace /\ (i = 1 \/ s[i - 1] \in Whitespace)}

\* the token of s that starts at position i
TokenAt(s, i) ==
    SubSeq(s, i, CHOOSE j \in i..Len(s) :
                    /\ \A k \in i..j : s[k] \notin Whitespace
                    /\ j = Len(s) \/ s[j + 1] \in Whitespace)

\* the position at which the n-th token of s starts
NthStart(s, n) ==
    CHOOSE i \in TokenStarts(s) : Cardinality({j \in TokenStarts(s) : j <= i}) = n

\* the text is '!' followed by at least one token
IsCommandText(t) ==
    /\ t # <<>>
    /\ t[1] = "!"
    /\ TokenStarts(RestOf(t)) # {}

\* C20: once converted, and so whenever the router sees it, the event of a
\* chat text is a Command exactly when the text is '!' followed by at least
\* one token: its name is the first token after '!' and its args are the
\* other tokens in order; any other text is a ChatMessage with the text
\* unchanged.
C20_CommandReclassifiedAtIngestion ==
    (hpc # "ingest" /\ kind[1].type \in {"ChatMessage", "Command"}) =>
        IF IsCommandText(text)
        THEN /\ kind[1].type = "Command"
             /\ LET toks == <<kind[1].name>> \o kind[1].args IN
                  /\ Len(toks) = Cardinality(TokenStarts(RestOf(text)))
                  /\ \A n \in 1..Len(toks) :
                        toks[n] = TokenAt(RestOf(text), NthStart(RestOf(text), n))
        ELSE kind[1] = [type |-> "ChatMessage", text |-> text]

\* C20 witness: "!a a !" has reached the command handler as the command a
\* with the args a and !
C20_Witness ==
    /\ text = <<"!", "a", " ", "a", "\t", "!">>
    /\ kind = Some([type |-> "Command", name |-> <<"a">>, args |-> <<<<"a">>, <<"!">>>>])
    /\ hpc = "in_handler"
    /\ invoked = <<[h |-> "h2", res |-> None]>>

(***************************************************************************)
(* SpecRoute: the Route of events of every variant, with various fields,   *)
(* seen through a router that has one handler per Route, named after it.   *)
(***************************************************************************)
\* texts of at most two characters
ShortTexts ==
    TextsOfLen(0) \cup TextsOfLen(1) \cup TextsOfLen(2)

\* EventKinds of every variant (models.rs:91-118) that differ in their fields
FieldedKinds ==
    {[type |-> "ChatMessage", text |-> t] : t \in ShortTexts}
      \cup {[type |-> "Command", name |-> n, args |-> a] :
               n \in TextsOfLen(1), a \in {<<>>, <<<<"a">>>>}}
      \cup {[type |-> "RewardRedemption", cost |-> c] : c \in 0..1}
      \cup {[type |-> "Donation", amount |-> c] : c \in 0..1}
      \cup {[type |-> "System", message |-> t] : t \in ShortTexts}

\* BaseRouter::new().route(r, handler r) for every Route r
RouteNamedTable ==
    [r \in Route |-> Some(r)]

InitRoute ==
    /\ PipelineOff
    /\ TagsOff
    /\ text = <<>>
    /\ kind \in {Some(k) : k \in FieldedKinds}
    /\ role = PLEB
    /\ required = PLEB
    /\ routes = RouteNamedTable
    /\ hpc = "start"
    /\ hresult = <<>>
    /\ invoked = <<>>

NextRoute ==
    \/ RouterHandle
    \/ \E r \in HandlerResults : RouterReturns(r)

SpecRoute ==
    InitRoute /\ [][NextRoute]_vars

\* C21: every event has a Route, which depends on the variant of its kind
\* only: ChatMessage and System give Message, Command gives Command,
\* RewardRedemption gives ChannelPointRedemption, Donation gives Donation;
\* handle looks up exactly that Route.
C21_RouteIsFunctionOfVariant ==
    /\ \A k \in FieldedKinds : RouteOf(k) \in Route
    /\ \A k1, k2 \in FieldedKinds : k1.type = k2.type => RouteOf(k1) = RouteOf(k2)
    /\ hpc \in {"in_handler", "returned"} =>
          /\ Len(invoked) = 1
          /\ invoked[1].h =
                CASE kind[1].type \in {"ChatMessage", "System"} -> "Message"
                  [] kind[1].type = "Command" -> "Command"
                  [] kind[1].type = "RewardRedemption" -> "ChannelPointRedemption"
                  [] kind[1].type = "Donation" -> "Donation"

\* C21 witness: a System event with a message went to the Message handler
C21_Witness ==
    /\ kind = Some([type |-> "System", message |-> <<"a", "!">>])
    /\ hpc = "in_handler"
    /\ invoked = <<[h |-> "Message", res |-> None]>>

(***************************************************************************)
(* The structured-feed client by itself (eventsub/client.rs): connect(),   *)
(* the messages handle_eventsub_message tells apart, the forwarding task   *)
(* and any EventConsumer behind it, against a server that names a session  *)
(* in each welcome.                                                        *)
(***************************************************************************)
MaxFeedEvents ==
    3

\* the ids the server may put in a session_welcome
SessionIds ==
    {"s1", "s2"}

\* what a text frame read in the streaming loop can be: a frame that is not
\* an EventSubMessage (364-365), the message types of the match (367-384),
\* and a notification whose payload does not decode (409-410, 429-430)
FrameKinds ==
    {"undecodable", "session_keepalive", "notification", "bad_notification",
     "session_reconnect", "revocation", "unknown"}

\* the frames the match only logs
LoggedOnly ==
    {"session_keepalive", "revocation", "unknown"}

\* lines 357-361, 368-370, 378-383: the frame is logged, Ok(()) is returned
\* and the loop reads on
SupIgnored ==
    /\ ProcessAlive
    /\ spc = "streaming"
    /\ ~cancelled
    /\ UNCHANGED vars

\* mutant: a revocation ends the attempt
SupMessageRevocationEnds(m) ==
    IF m \in {"undecodable", "bad_notification"}
    THEN SupStreamError("parse")
    ELSE IF m = "notification"
         THEN SupNotification
         ELSE IF m \in {"session_reconnect", "revocation"}
              THEN SupStreamError("reconnect")
              ELSE SupIgnored

\* handle_eventsub_message (350-387) on a text frame of kind m
SupMessage(m) ==
    IF m \in {"undecodable", "bad_notification"}
    THEN SupStreamError("parse")
    ELSE IF m = "notification"
         THEN SupNotification
         ELSE IF m = "session_reconnect"
              THEN SupStreamError("reconnect")
              ELSE SupIgnored

InitFeed ==
    /\ TokenInit({}, TRUE, FALSE, PlainProvider)
    /\ ClientNew(SessionIds)
    /\ ChannelInit
    /\ IrcOff
    /\ TagsOff
    /\ ConsumerInit("off")
    /\ apc = "start"
    /\ appResult = "none"
    /\ TimeInit(FALSE, MaxFeedEvents)
    /\ HandleOff

NextFeed ==
    \/ NextClient
    \/ \E m \in FrameKinds : SupMessage(m)

SpecFeed ==
    InitFeed /\ [][NextFeed]_vars

\* the runtime polls the supervisor task whenever it can go on, and the
\* reconnect sleep ends
FairFeed ==
    /\ SpecFeed
    /\ WF_vars(SupAfterErr)
    /\ WF_vars(SupWake)
    /\ WF_vars(SupSelect)
    /\ WF_vars(SupCancelled)

\* the positions of the supervisor that make up each phase of an attempt
Connecting == {"connecting"}
AwaitingWelcome == {"welcome"}
Subscribing == {"get_token", "sub_rewards", "sub_chat"}
Streaming == {"streaming", "sending"}

\* an attempt is over: it failed, returned Ok, or was dropped by cancellation
AttemptOver == {"failed", "select", "stopped"}

\* C25: within a connection attempt the phases follow one another as
\* Connecting, AwaitingWelcome, Subscribing, Streaming, none skipped and none
\* revisited; an event is put on the output channel only in Streaming; and
\* whenever the client is in Streaming the session is the one the welcome of
\* this attempt yielded and both subscription requests were made with its id.
C25_PhasesInOrder ==
    /\ [][(spc' \in Connecting /\ spc' # spc) => spc = "select"]_vars
    /\ [][(spc \in Connecting) => spc' \in Connecting \cup AwaitingWelcome \cup AttemptOver]_vars
    /\ [][(spc \in AwaitingWelcome) => spc' \in AwaitingWelcome \cup Subscribing \cup AttemptOver]_vars
    /\ [][(spc' \in Subscribing /\ spc \notin Subscribing)
            => (spc \in AwaitingWelcome /\ session = None /\ session' # None)]_vars
    /\ [][(spc \in Subscribing) => spc' \in Subscribing \cup Streaming \cup AttemptOver]_vars
    /\ [][(spc' \in Streaming /\ spc \notin Streaming) => spc = "sub_chat"]_vars
    /\ [][(spc \in Streaming) => spc' \in Streaming \cup AttemptOver]_vars
    /\ [][(sdk' # sdk /\ Len(sdk') >= Len(sdk)) => spc \in Streaming]_vars
    /\ [][(session' # session) => (session' = None \/ (spc \in AwaitingWelcome /\ session = None))]_vars
    /\ [](spc \in Connecting \cup AwaitingWelcome => (session = None /\ subscribed = <<>>))
    /\ [](spc \in Streaming =>
            /\ session # None
            /\ subscribed = <<<<"rewards", session[1]>>, <<"chat", session[1]>>>>)

\* a later attempt streams under the session its own welcome named, both
\* requests were made with that id, and it has forwarded a notification
C25_Witness ==
    /\ spc \in Streaming
    /\ attemptFirstEv > 1
    /\ nextEv > attemptFirstEv
    /\ session = Some("s2")
    /\ subscribed = <<<<"rewards", "s2">>, <<"chat", "s2">>>>

\* the ways a subscription request does not succeed: a response whose status
\* is not a success (255-267, 297-304) and a request that fails (253, 295)
SubscribeFailures ==
    {"status_error", "send_error"}

\* C26: in Subscribing, any failure of the reward subscription ends the
\* attempt with an error (and so leads to the supervisor's reconnect), while
\* any failure of the chat subscription, a non-success response or a failed
\* request, leaves the attempt going: the client enters Streaming.
C26_SubscriptionFailures ==
    /\ [][\A r \in SubscribeFailures :
            SupSubRewards(r) => (spc' = "failed" /\ attemptEnd' = "sub_rewards")]_vars
    /\ [][\A r \in SubscribeFailures : SupSubChat(r) => spc' = "streaming"]_vars

\* C27: in Streaming, a text frame that is not a decodable message, or a
\* notification whose payload does not decode, is skipped: the client stays
\* in Streaming, nothing is put on the output channel and the attempt does
\* not end.
C27_UnparsableSkipped ==
    [][\A m \in {"undecodable", "bad_notification"} :
          SupMessage(m) => (spc' = "streaming" /\ sdk' = sdk /\ attemptEnd' = attemptEnd)]_vars

\* C28: in Streaming, when no frame arrives within the keepalive timeout or
\* a session_reconnect message is read, the attempt ends, and unless
\* cancellation is requested the supervisor goes on to a new attempt, which
\* starts without a session and gets its own from a new welcome;
\* session_keepalive, revocation and unknown message types leave the client
\* in Streaming and put nothing on the output channel.
C28_LivenessFailureReconnects ==
    /\ [][(SupStreamError("keepalive_timeout") \/ SupMessage("session_reconnect"))
            => (spc' = "failed" /\ attemptEnd' \in {"keepalive_timeout", "reconnect"})]_vars
    /\ (spc = "failed" /\ attemptEnd \in {"keepalive_timeout", "reconnect"})
          ~> (cancelled \/ (spc = "connecting" /\ session = None /\ subscribed = <<>>))
    /\ [][(spc = "streaming" /\ \E m \in LoggedOnly : SupMessage(m))
            => (spc' = "streaming" /\ UNCHANGED <<sdk, sev, nextEv, attemptEnd, session>>)]_vars

\* the keepalive timeout ended an attempt that had forwarded a
\* notification; its session is gone and the supervisor, not cancelled, is
\* on its way to the next attempt
C28_Witness ==
    /\ spc = "sleep"
    /\ attemptEnd = "keepalive_timeout"
    /\ nextEv > attemptFirstEv
    /\ session = None
    /\ ~cancelled

(***************************************************************************)
(* IrcClient, the legacy text client of the SDK (irc/client.rs): the       *)
(* supervisor loop of connect(), run_lifecycle with the writer actor, the  *)
(* handshake and the reader loop.  A line is the sequence of its pieces:   *)
(* the piece "PING" is that substring, every other piece is text without   *)
(* it.                                                                     *)
(***************************************************************************)
WS_CMD_BUFFER_SIZE ==
    2
MaxIrcFrames ==
    1

nonIrcVars ==
    <<tokenVars, cancelled, clientVars, fetchVars, chanVars, consumerVars, appVars,
      handleVars, tagVars, providerVars>>

\* the lines the server sends: a PING with the usual payload, a PING whose
\* payload holds the letters PING, and a chat message whose text is PING
IrcLines ==
    { <<"PING", " :tmi.twitch.tv">>,
      <<"PING", " :", "PING">>,
      <<":u!u@u PRIVMSG #c :", "PING">> }

\* the text frames: one line, or two separated by a line end
TextFrames ==
    { <<l>> : l \in IrcLines } \cup { <<l, m>> : l, m \in IrcLines }

\* line 247: l.starts_with("PING")
StartsWithPing(l) ==
    l[1] = "PING"

\* mutant: only the first PING of the line is rewritten
ReplaceFirstPing(l) ==
    [i \in 1..Len(l) |-> IF i = 1 /\ l[i] = "PING" THEN "PONG" ELSE l[i]]

\* line 248: l.replace("PING", "PONG") rewrites every occurrence in the line
ReplacePing(l) ==
    [i \in 1..Len(l) |-> IF l[i] = "PING" THEN "PONG" ELSE l[i]]

\* parser.rs:44-51: only a PRIVMSG line yields an event
IsPrivmsg(l) ==
    l[1] = ":u!u@u PRIVMSG #c :"

\* one send to the writer: the reply to line l
PongOp(l) ==
    <<"pong", ReplacePing(l), l>>

\* one send to the event channel
EventOp(l) ==
    <<"event", "ChatMessage">>

\* handle_text_message (240-261): first a reply for every line that starts
\* with PING, in order, then an event for every line the parser accepts
ToDo(lines) ==
    LET pings == SelectSeq(lines, StartsWithPing)
        chats == SelectSeq(lines, IsPrivmsg)
    IN  [i \in 1..Len(pings) |-> PongOp(pings[i])]
          \o [i \in 1..Len(chats) |-> EventOp(chats[i])]

\* mutant: NICK is sent before PASS
HandshakeCmdsNickFirst ==
    << <<"NICK ", "nick">>, <<"PASS ", "token">>,
       <<"CAP REQ :twitch.tv/tags twitch.tv/commands">>, <<"JOIN #", "channel">> >>

\* perform_handshake (179-193): the four commands in the order they are sent
HandshakeCmds ==
    << <<"PASS ", "token">>, <<"NICK ", "nick">>,
       <<"CAP REQ :twitch.tv/tags twitch.tv/commands">>, <<"JOIN #", "channel">> >>

\* the positions inside run_lifecycle
IrcInAttempt ==
    {"get_token", "connecting", "handshake", "reading", "handling"}

\* cmd_tx lives in run_lifecycle from line 141 until the future returns or
\* is dropped
CmdTxAlive ==
    ipc \in {"handshake", "reading", "handling"}

\* run_lifecycle returns Err(why) into the select! arm (line 104)
IrcErr(why) ==
    /\ ipc' = "failed"
    /\ iend' = why
    /\ itodo' = <<>>

\* IrcClient as connect() leaves it (72-118): the supervisor task is spawned
\* and the receiver handed out
IrcConnected ==
    /\ ipc = "select"
    /\ iend = "none"
    /\ cmdq = <<>>
    /\ wpc = "off"
    /\ written = <<>>
    /\ itodo = <<>>
    /\ iout = <<>>
    /\ ioutRxAlive = TRUE
    /\ iframes = 0
    /\ pinged = <<>>
    /\ wold = NoOldWriters

\* lines 88-103: no cancellation pending: run_lifecycle is polled and calls
\* get_token (line 137)
IrcSelect ==
    /\ ipc = "select"
    /\ ~cancelled
    /\ ipc' = "get_token"
    /\ iend' = "none"
    /\ UNCHANGED <<cmdq, wpc, written, itodo, iout, ioutRxAlive, iframes, pinged, wold>>
    /\ UNCHANGED nonIrcVars

\* lines 91-94: cancellation wins the biased select!: the run_lifecycle
\* future is dropped where it stands, and cmd_tx with it
IrcCancelled ==
    /\ ipc \in IrcInAttempt \cup {"select"}
    /\ cancelled
    /\ ipc' = "stopped"
    /\ itodo' = <<>>
    /\ UNCHANGED <<iend, cmdq, wpc, written, iout, ioutRxAlive, iframes, pinged, wold>>
    /\ UNCHANGED nonIrcVars

\* line 137: get_token().await.context("auth failed")?
IrcToken(ok) ==
    /\ ipc = "get_token"
    /\ ~cancelled
    /\ IF ok
       THEN ipc' = "connecting" /\ UNCHANGED <<iend, itodo>>
       ELSE IrcErr("auth")
    /\ UNCHANGED <<cmdq, wpc, written, iout, ioutRxAlive, iframes, pinged, wold>>
    /\ UNCHANGED nonIrcVars

\* the slots of wold that hold no running writer
FreeSlots ==
    {i \in 1..MaxOldWriters : wold[i] = None}

\* lines 139-145: connect_to_url succeeds or fails; on success the socket is
\* split, the command channel made and the writer actor spawned.  The
\* writer of the connection before, when it still runs, goes on as a task
\* of its own with its sink and what is left in its channel (nothing holds
\* its JoinHandle); at most MaxOldWriters such writers are followed.
IrcConnect(ok) ==
    /\ ipc = "connecting"
    /\ ~cancelled
    /\ IF ok
       THEN /\ IF wpc = "running"
               THEN \E i \in FreeSlots :
                       /\ \A j \in FreeSlots : i <= j
                       /\ wold' = [wold EXCEPT ![i] = Some(Len(cmdq))]
               ELSE UNCHANGED wold
            /\ ipc' = "handshake"
            /\ cmdq' = <<>>
            /\ wpc' = "running"
            /\ written' = <<>>
            /\ pinged' = <<>>
            /\ UNCHANGED <<iend, itodo>>
       ELSE /\ IrcErr("connect")
            /\ UNCHANGED <<cmdq, wpc, written, pinged, wold>>
    /\ UNCHANGED <<iout, ioutRxAlive, iframes>>
    /\ UNCHANGED nonIrcVars

\* lines 146, 179-193: the next handshake command is put on the command
\* channel (the send waits while the channel is full, and fails when the
\* writer has gone); after the fourth the reader loop starts
IrcHandshake ==
    /\ ipc = "handshake"
    /\ ~cancelled
    /\ IF wpc # "running"
       THEN IrcErr("handshake") /\ UNCHANGED cmdq
       ELSE /\ Len(cmdq) < WS_CMD_BUFFER_SIZE
            /\ cmdq' = Append(cmdq, HandshakeCmds[Len(written) + Len(cmdq) + 1])
            /\ ipc' = IF Len(written) + Len(cmdq) + 1 = Len(HandshakeCmds)
                      THEN "reading" ELSE "handshake"
            /\ UNCHANGED <<iend, itodo>>
    /\ UNCHANGED <<wpc, written, iout, ioutRxAlive, iframes, pinged, wold>>
    /\ UNCHANGED nonIrcVars

\* lines 168-174: the writer actor takes the oldest command and writes it to
\* the sink; when the write fails it signals error_tx and ends, dropping the
\* command channel's receiver and what it holds
IrcWriterWrites(ok) ==
    /\ wpc = "running"
    /\ cmdq # <<>>
    /\ IF ok
       THEN /\ written' = Append(written, Head(cmdq))
            /\ cmdq' = Tail(cmdq)
            /\ UNCHANGED wpc
       ELSE /\ wpc' = "dead"
            /\ cmdq' = <<>>
            /\ UNCHANGED written
    /\ UNCHANGED <<ipc, iend, itodo, iout, ioutRxAlive, iframes, pinged, wold>>
    /\ UNCHANGED nonIrcVars

\* mutant: the writer actor goes on waiting on a channel that is closed and
\* empty
IrcWriterKeepsWaiting ==
    /\ wpc = "running"
    /\ cmdq = <<>>
    /\ ~CmdTxAlive
    /\ wpc' = "running"
    /\ UNCHANGED <<ipc, iend, cmdq, written, itodo, iout, ioutRxAlive, iframes, pinged, wold>>
    /\ UNCHANGED nonIrcVars

\* line 168: cmd_rx.recv() yields None once every sender is dropped and the
\* channel is empty: the writer actor ends
IrcWriterEnds ==
    /\ wpc = "running"
    /\ cmdq = <<>>
    /\ ~CmdTxAlive
    /\ wpc' = "ended"
    /\ UNCHANGED <<ipc, iend, cmdq, written, itodo, iout, ioutRxAlive, iframes, pinged, wold>>
    /\ UNCHANGED nonIrcVars

\* mutant: the writer's error signal ends the reader loop with Ok
IrcWriterDiedEndsOk ==
    /\ ipc = "reading"
    /\ ~cancelled
    /\ wpc = "dead"
    /\ ipc' = "select"
    /\ iend' = "ok"
    /\ UNCHANGED <<cmdq, wpc, written, itodo, iout, ioutRxAlive, iframes, pinged, wold>>
    /\ UNCHANGED nonIrcVars

\* lines 168-174 in the writer actor of an earlier connection: it writes
\* the next frame left in its channel to its own sink, or the write fails
\* and it ends (error_tx.send finds the receiver gone)
IrcOldWriterWrites(i, ok) ==
    /\ wold[i] # None
    /\ wold[i][1] > 0
    /\ wold' = [wold EXCEPT ![i] = IF ok THEN Some(wold[i][1] - 1) ELSE None]
    /\ UNCHANGED <<ipc, iend, cmdq, wpc, written, itodo, iout, ioutRxAlive, iframes, pinged>>
    /\ UNCHANGED nonIrcVars

\* line 168 in the writer actor of an earlier connection: its channel is
\* empty and its only sender was dropped with the attempt: recv() yields
\* None and the task ends, dropping the sink
IrcOldWriterEnds(i) ==
    /\ wold[i] = Some(0)
    /\ wold' = [wold EXCEPT ![i] = None]
    /\ UNCHANGED <<ipc, iend, cmdq, wpc, written, itodo, iout, ioutRxAlive, iframes, pinged>>
    /\ UNCHANGED nonIrcVars

\* lines 211-214: the writer's error signal is seen before the stream is
\* polled
IrcWriterDied ==
    /\ ipc = "reading"
    /\ ~cancelled
    /\ wpc = "dead"
    /\ IrcErr("writer_died")
    /\ UNCHANGED <<cmdq, wpc, written, iout, ioutRxAlive, iframes, pinged, wold>>
    /\ UNCHANGED nonIrcVars

\* lines 216-227: a text frame is read and handle_text_message begins
IrcText(lines) ==
    /\ ipc = "reading"
    /\ ~cancelled
    /\ wpc # "dead"
    /\ iframes < MaxIrcFrames
    /\ iframes' = iframes + 1
    /\ itodo' = ToDo(lines)
    /\ ipc' = IF ToDo(lines) = <<>> THEN "reading" ELSE "handling"
    /\ UNCHANGED <<iend, cmdq, wpc, written, iout, ioutRxAlive, pinged, wold>>
    /\ UNCHANGED nonIrcVars

\* the ways the reader loop ends without a text frame: the stream yields
\* None (217-220) or a close frame (228-231), both Ok(()); a protocol error
\* (222), Err
StreamEnds ==
    {"stream_end", "close_frame", "ws_error"}

\* mutant: a close frame is an error of the attempt
IrcStreamEndsCloseIsErr(how) ==
    /\ ipc = "reading"
    /\ ~cancelled
    /\ wpc # "dead"
    /\ IF how = "stream_end"
       THEN ipc' = "select" /\ iend' = "ok" /\ UNCHANGED itodo
       ELSE IrcErr(how)
    /\ UNCHANGED <<cmdq, wpc, written, iout, ioutRxAlive, iframes, pinged, wold>>
    /\ UNCHANGED nonIrcVars

\* lines 217-231, 104: the reader loop returns; after Ok(()) the select! arm
\* does nothing and the supervisor loop goes round at once
IrcStreamEnds(how) ==
    /\ ipc = "reading"
    /\ ~cancelled
    /\ wpc # "dead"
    /\ IF how \in {"stream_end", "close_frame"}
       THEN ipc' = "select" /\ iend' = "ok" /\ UNCHANGED itodo
       ELSE IrcErr(how)
    /\ UNCHANGED <<cmdq, wpc, written, iout, ioutRxAlive, iframes, pinged, wold>>
    /\ UNCHANGED nonIrcVars

\* mutant: the sends of handle_text_message go on after cancellation
IrcHandleStepAfterCancel ==
    /\ ipc = "handling"
    /\ IF Head(itodo)[1] = "pong"
       THEN /\ IF wpc # "running"
               THEN UNCHANGED <<cmdq, pinged>>
               ELSE /\ Len(cmdq) < WS_CMD_BUFFER_SIZE
                    /\ cmdq' = Append(cmdq, Head(itodo)[2])
                    /\ pinged' = Append(pinged, Head(itodo)[3])
            /\ itodo' = Tail(itodo)
            /\ ipc' = IF Tail(itodo) = <<>> THEN "reading" ELSE "handling"
            /\ UNCHANGED <<iend, iout>>
       ELSE /\ IF ~ioutRxAlive
               THEN IrcErr("receiver_dropped") /\ UNCHANGED iout
               ELSE /\ Len(iout) < CHANNEL_BUFFER_SIZE
                    /\ iout' = Append(iout, Head(itodo)[2])
                    /\ itodo' = Tail(itodo)
                    /\ ipc' = IF Tail(itodo) = <<>> THEN "reading" ELSE "handling"
                    /\ UNCHANGED iend
            /\ UNCHANGED <<cmdq, pinged>>
    /\ UNCHANGED <<wpc, written, ioutRxAlive, iframes, wold>>
    /\ UNCHANGED nonIrcVars

\* lines 245-258: the next send of handle_text_message: a reply goes on the
\* command channel (cmd_tx.send(pong).await.ok(): a failed send is dropped),
\* an event on the event channel (a failed send is Err("event receiver
\* dropped")); either send waits while its channel is full
IrcHandleStep ==
    /\ ipc = "handling"
    /\ ~cancelled
    /\ IF Head(itodo)[1] = "pong"
       THEN /\ IF wpc # "running"
               THEN UNCHANGED <<cmdq, pinged>>
               ELSE /\ Len(cmdq) < WS_CMD_BUFFER_SIZE
                    /\ cmdq' = Append(cmdq, Head(itodo)[2])
                    /\ pinged' = Append(pinged, Head(itodo)[3])
            /\ itodo' = Tail(itodo)
            /\ ipc' = IF Tail(itodo) = <<>> THEN "reading" ELSE "handling"
            /\ UNCHANGED <<iend, iout>>
       ELSE /\ IF ~ioutRxAlive
               THEN IrcErr("receiver_dropped") /\ UNCHANGED iout
               ELSE /\ Len(iout) < CHANNEL_BUFFER_SIZE
                    /\ iout' = Append(iout, Head(itodo)[2])
                    /\ itodo' = Tail(itodo)
                    /\ ipc' = IF Tail(itodo) = <<>> THEN "reading" ELSE "handling"
                    /\ UNCHANGED iend
            /\ UNCHANGED <<cmdq, pinged>>
    /\ UNCHANGED <<wpc, written, ioutRxAlive, iframes, wold>>
    /\ UNCHANGED nonIrcVars

\* the holder of the receiver takes the oldest event
IrcRecv ==
    /\ ioutRxAlive
    /\ iout # <<>>
    /\ iout' = Tail(iout)
    /\ UNCHANGED <<ipc, iend, cmdq, wpc, written, itodo, ioutRxAlive, iframes, pinged, wold>>
    /\ UNCHANGED nonIrcVars

\* the holder drops the receiver and what it buffers
IrcRxDropped ==
    /\ ipc # "off"
    /\ ioutRxAlive
    /\ ioutRxAlive' = FALSE
    /\ iout' = <<>>
    /\ UNCHANGED <<ipc, iend, cmdq, wpc, written, itodo, iframes, pinged, wold>>
    /\ UNCHANGED nonIrcVars

\* mutant: the supervisor gives up after an error
IrcAfterErrGivesUp ==
    /\ ipc = "failed"
    /\ ipc' = "stopped"
    /\ UNCHANGED <<iend, cmdq, wpc, written, itodo, iout, ioutRxAlive, iframes, pinged, wold>>
    /\ UNCHANGED nonIrcVars

\* lines 104-111: the attempt ended with Err: break when cancellation has
\* been requested, otherwise log and sleep RECONNECT_DELAY_SECS
IrcAfterErr ==
    /\ ipc = "failed"
    /\ ipc' = IF cancelled THEN "stopped" ELSE "sleep"
    /\ UNCHANGED <<iend, cmdq, wpc, written, itodo, iout, ioutRxAlive, iframes, pinged, wold>>
    /\ UNCHANGED nonIrcVars

\* line 110: the sleep (which is not part of the select!) ends
IrcWake ==
    /\ ipc = "sleep"
    /\ ipc' = "select"
    /\ UNCHANGED <<iend, cmdq, wpc, written, itodo, iout, ioutRxAlive, iframes, pinged, wold>>
    /\ UNCHANGED nonIrcVars

\* shutdown() (120-126) or Drop (35-39): the cancellation token is cancelled
IrcShutdown ==
    /\ ipc # "off"
    /\ ~cancelled
    /\ cancelled' = TRUE
    /\ UNCHANGED ircVars
    /\ UNCHANGED <<tokenVars, clientVars, fetchVars, chanVars, consumerVars, appVars, handleVars, tagVars, providerVars>>

IrcSupStep ==
    \/ IrcSelect
    \/ IrcCancelled
    \/ \E ok \in BOOLEAN : IrcToken(ok)
    \/ \E ok \in BOOLEAN : IrcConnect(ok)
    \/ IrcHandshake
    \/ IrcWriterDied
    \/ \E lines \in TextFrames : IrcText(lines)
    \/ \E how \in StreamEnds : IrcStreamEnds(how)
    \/ IrcHandleStep
    \/ IrcAfterErr
    \/ IrcWake

IrcWriterStep ==
    \/ \E ok \in BOOLEAN : IrcWriterWrites(ok)
    \/ IrcWriterEnds

IrcOldWriterStep(i) ==
    \/ \E ok \in BOOLEAN : IrcOldWriterWrites(i, ok)
    \/ IrcOldWriterEnds(i)

NextIrc ==
    \/ IrcSupStep
    \/ IrcWriterStep
    \/ \E i \in 1..MaxOldWriters : IrcOldWriterStep(i)
    \/ IrcRecv
    \/ IrcRxDropped
    \/ IrcShutdown

InitIrc ==
    /\ TokenInit({}, FALSE, FALSE, PlainProvider)
    /\ ClientOff
    /\ ChannelInit
    /\ ConsumerInit("off")
    /\ apc = "off"
    /\ appResult = "none"
    /\ TimeInit(FALSE, MaxFeedEvents)
    /\ HandleOff
    /\ IrcConnected
    /\ TagsOff

SpecIrc ==
    InitIrc /\ [][NextIrc]_vars

\* the runtime polls the supervisor task and the writer actor whenever they
\* can go on, and the reconnect sleep ends
FairIrc ==
    /\ SpecIrc
    /\ WF_vars(IrcSelect)
    /\ WF_vars(IrcCancelled)
    /\ WF_vars(IrcAfterErr)
    /\ WF_vars(IrcWake)
    /\ WF_vars(IrcWriterStep)
    /\ \A i \in 1..MaxOldWriters : WF_vars(IrcOldWriterStep(i))

\* C23: on every connection of the IrcClient the first four frames written
\* are PASS, NICK, the capability request and JOIN, in that order: whatever
\* has been written or is queued for the writer begins with them, so no PONG
\* and no other command is written before them.
C23_HandshakeWrittenFirst ==
    LET out == written \o cmdq
    IN  /\ Len(out) >= 1 => out[1] = <<"PASS ", "token">>
        /\ Len(out) >= 2 => out[2] = <<"NICK ", "nick">>
        /\ Len(out) >= 3 => out[3] = <<"CAP REQ :twitch.tv/tags twitch.tv/commands">>
        /\ Len(out) >= 4 => out[4] = <<"JOIN #", "channel">>

\* the four handshake frames and a PONG after them have been written, and
\* the server has sent all its text frames
C23_Witness ==
    /\ Len(written) > Len(HandshakeCmds)
    /\ written[Len(HandshakeCmds) + 1][1] = "PONG"
    /\ iframes = MaxIrcFrames
    /\ pinged # <<>>

\* the reply the protocol asks for: PONG followed by the payload of the PING
SamePayloadPong(l) ==
    <<"PONG">> \o Tail(l)

\* what was put on the command channel after the handshake
Replies ==
    SubSeq(written \o cmdq, Len(HandshakeCmds) + 1, Len(written) + Len(cmdq))

\* the most frames a connection is ever given to write: the handshake and
\* a reply to each line of each text frame
MaxWritten ==
    Len(HandshakeCmds) + MaxIrcFrames * 2

\* C22: for every line beginning with PING that the reader loop handles,
\* exactly one reply is put on the command channel, and it is PONG followed
\* by the same payload; and while the writer actor is alive every queued
\* frame is eventually written to the connection.
C22_PingAnswered ==
    /\ [](wpc = "running" =>
            Replies = [i \in 1..Len(pinged) |-> SamePayloadPong(pinged[i])])
    /\ \A n \in 1..MaxWritten :
          (wpc = "running" /\ Len(written) + Len(cmdq) >= n)
             ~> (wpc # "running" \/ Len(written) >= n)

(***************************************************************************)
(* Either client of the SDK: the structured-feed client as the program     *)
(* runs it, or the IrcClient after connect().                              *)
(***************************************************************************)
InitClients ==
    InitFeed \/ InitIrc

NextClients ==
    \/ NextFeed
    \/ NextIrc

SpecClients ==
    InitClients /\ [][NextClients]_vars

\* the runtime polls either supervisor task whenever it can go on, and the
\* reconnect sleeps end
FairClients ==
    /\ SpecClients
    /\ WF_vars(SupSelect)
    /\ WF_vars(SupCancelled)
    /\ WF_vars(SupAfterErr)
    /\ WF_vars(SupWake)
    /\ WF_vars(IrcSelect)
    /\ WF_vars(IrcCancelled)
    /\ WF_vars(IrcAfterErr)
    /\ WF_vars(IrcWake)

\* what is left of channel contents q after some of the oldest were taken
Remainders(q) ==
    { SubSeq(q, k + 1, Len(q)) : k \in 0..Len(q) }

C29_SupervisorRetries ==
    /\ [][(spc = "failed" /\ ~cancelled) => spc' \in {"failed", "sleep"}]_vars
    /\ [][(ipc = "failed" /\ ~cancelled) => ipc' \in {"failed", "sleep"}]_vars
    /\ [][(spc = "sleep") => spc' \in {"sleep", "select"}]_vars
    /\ [][(ipc = "sleep") => ipc' \in {"sleep", "select"}]_vars
    /\ ((spc = "failed" \/ ipc = "failed") /\ ~cancelled)
          ~> (cancelled \/ spc = "connecting" \/ ipc = "get_token")
    /\ [][(spc' \in InAttempt /\ spc \notin InAttempt) => ~cancelled']_vars
    /\ [][(ipc' \in IrcInAttempt /\ ipc \notin IrcInAttempt) => ~cancelled']_vars
    /\ (cancelled /\ (spc # "off" \/ ipc # "off"))
          ~> (spc = "stopped" \/ ipc = "stopped")
    /\ [][(spc = "stopped") => spc' = "stopped"]_vars
    /\ [][(ipc = "stopped") => ipc' = "stopped"]_vars

\* an attempt that came after an earlier one has failed to connect and the
\* supervisor, not cancelled, is in its reconnect sleep
C29_Witness ==
    /\ spc = "sleep"
    /\ attemptEnd = "connect"
    /\ attemptFirstEv > 1
    /\ ~cancelled

\* C30: in the IrcClient a close frame or the end of the stream ends the
\* attempt with Ok, not with an error; the supervisor, if cancellation was
\* not requested, starts a new attempt all the same (without the reconnect
\* sleep), and if it was requested starts none.
C30_CleanEndStillRetries ==
    /\ [][(\E how \in {"stream_end", "close_frame"} : IrcStreamEnds(how))
            => (ipc' = "select" /\ iend' = "ok")]_vars
    /\ [](iend = "ok" => ipc \in {"select", "stopped"})
    /\ (ipc = "select" /\ iend = "ok") ~> (cancelled \/ ipc = "get_token")
    /\ [][(ipc = "select" /\ cancelled) => ipc' \in {"select", "stopped"}]_vars

\* the connection of an attempt that read a frame ended cleanly and the
\* supervisor, not cancelled, is about to start the next attempt
C30_Witness ==
    /\ ipc = "select"
    /\ iend = "ok"
    /\ iframes >= 1
    /\ ~cancelled

(***************************************************************************)
(* The IrcClient with the reader loop's arms polled whenever they are      *)
(* ready.                                                                  *)
(***************************************************************************)
\* as FairIrc, and the reader loop is woken by the writer's error signal
\* (the oneshot receiver of line 211 wakes the task)
FairWriter ==
    /\ FairIrc
    /\ WF_vars(IrcWriterDied)

\* C31: a write that fails puts the writer actor in its final state, from
\* which it writes nothing more and signals nothing more (the state is left
\* only when a later connection spawns a new writer); a reader loop that
\* waits in its select! with the signal raised takes no frame from the
\* stream: its only step is to end the attempt with the error "writer actor
\* died", after which the supervisor sleeps and reconnects; when
\* cancellation was requested the only step is the cancellation arm, which
\* stops the supervisor without an error and without a reconnect.
C31_WriterFailureReconnects ==
    /\ [][IrcWriterWrites(FALSE) => (wpc = "running" /\ wpc' = "dead")]_vars
    /\ [][(wpc = "dead" /\ written' # written) => (ipc = "connecting" /\ wpc' = "running")]_vars
    /\ [][(wpc = "dead" /\ wpc' # "dead") => (ipc = "connecting" /\ wpc' = "running")]_vars
    /\ [][(ipc = "reading" /\ wpc = "dead" /\ ~cancelled /\ ipc' # ipc)
            => (ipc' = "failed" /\ iend' = "writer_died" /\ iframes' = iframes)]_vars
    /\ [][(ipc = "reading" /\ wpc = "dead" /\ cancelled /\ ipc' # ipc)
            => (ipc' = "stopped" /\ iend' = iend)]_vars
    /\ (ipc = "reading" /\ wpc = "dead" /\ ~cancelled) ~> (cancelled \/ ipc = "sleep")
    /\ (iend = "writer_died" /\ ipc = "sleep") ~> (cancelled \/ ipc = "get_token")
    /\ (ipc = "reading" /\ wpc = "dead" /\ cancelled) ~> (ipc = "stopped")

\* the writer failed after the handshake was written; the reader loop ended
\* the attempt with the writer's error and the supervisor, not cancelled,
\* sleeps before it reconnects
C31_Witness ==
    /\ ipc = "sleep"
    /\ iend = "writer_died"
    /\ wpc = "dead"
    /\ Len(written) >= Len(HandshakeCmds)
    /\ ~cancelled

(***************************************************************************)
(* Backpressure of the Consumer (SpecConsumer)                             *)
(***************************************************************************)
\* the events taken out of the channel whose dispatch unit has not ended
Unfinished ==
    {received[i] : i \in 1..Len(received)} \ Finished

\* C32 as stated: while every permit is in use consume takes no event out
\* of the channel, and the events taken out and not yet finished are never
\* more than BUFFER_SIZE.
C32_NoIntakeWithoutPermit ==
    /\ [](Cardinality(Unfinished) <= BUFFER_SIZE)
    /\ [][permits = 0 => received' = received]_vars

\* C32 amended: consume takes an event out of the channel first (line 37)
\* and then waits for a permit (line 38): the events taken out and not yet
\* finished are never more than BUFFER_SIZE + 1, and when they are that many
\* one of them is held by consume, which waits for a permit with none free;
\* while it waits it takes no further event, and with no permit free it
\* stays waiting: it goes on only after a dispatch unit returned a permit.
C32_OneEventHeldAtMost ==
    /\ [](Cardinality(Unfinished) <= BUFFER_SIZE + 1)
    /\ [](Cardinality(Unfinished) = BUFFER_SIZE + 1 => (cpc = "acquire" /\ permits = 0))
    /\ [](cpc = "acquire" => (cev # None /\ cev[1] \in Unfinished \ InFlight))
    /\ [][cpc = "acquire" => received' = received]_vars
    /\ [][(cpc = "acquire" /\ permits = 0) => (cpc' = "acquire" /\ cev' = cev)]_vars

\* every permit is in use, consume holds one more event and waits for a
\* permit, and a further event is left in the channel
C32_Witness ==
    /\ Cardinality(Unfinished) = BUFFER_SIZE + 1
    /\ Cardinality(InFlight) = BUFFER_SIZE
    /\ permits = 0
    /\ cpc = "acquire"
    /\ fch # <<>>

(***************************************************************************)
(* What refresh_now writes (SpecToken, FairToken)                          *)
(***************************************************************************)
\* refresh_now of task t has returned: get_token is done, the background
\* loop sleeps
Returned(t) ==
    IF t = BgTask THEN "sleep" ELSE "done"

\* C33: the step of refresh_now that receives a successful response caches
\* "oauth:" followed by the access token of the response; when the response
\* has no refresh token, or the one that was sent with the request,
\* refresh_now returns at once with the stored refresh token and the
\* callback's log as they were; otherwise its next step stores the new
\* refresh token, invokes the callback with it and returns the prefixed
\* token; the stored refresh token and the callback's log change in no
\* other step, which each refresh takes at most once.
C33_SuccessfulRefreshStores ==
    /\ [][\A t \in TokenTasks : \A a \in provider.access :
            \A rt \in provider.refresh : \A exp \in provider.expires :
              RefreshStore(t, a, rt, exp) =>
                /\ current_token' = <<(<<"oauth:", a>>)>>
                /\ refresh_token' = refresh_token
                /\ on_rotation_log' = on_rotation_log
                /\ IF rt = "" \/ rt = tloc[t].cr
                   THEN /\ tpc'[t] = Returned(t)
                        /\ t # BgTask => tresult'[t] = <<"ok", <<"oauth:", a>>>>
                   ELSE /\ tpc'[t] = "rotate"
                        /\ tloc'[t].rt = rt
                        /\ tloc'[t].full = <<"oauth:", a>>]_vars
    /\ [][\A t \in TokenTasks :
            (tpc[t] = "rotate" /\ tpc'[t] # "rotate") =>
                /\ refresh_token' = tloc[t].rt
                /\ on_rotation_log' =
                       IF on_rotation THEN on_rotation_log \cup {tloc[t].rt}
                       ELSE on_rotation_log
                /\ current_token' = current_token
                /\ tpc'[t] = Returned(t)
                /\ t # BgTask => tresult'[t] = <<"ok", tloc[t].full>>]_vars
    /\ [][(refresh_token' # refresh_token \/ on_rotation_log' # on_rotation_log)
            => \E t \in TokenTasks : tpc[t] = "rotate" /\ tpc'[t] = Returned(t)]_vars
    /\ [](\A t \in TokenTasks : tpc[t] = "rotate" => tloc[t].rt # "")

\* a get_token caller's refresh was answered with a rotated refresh token:
\* the new one is stored, the callback was invoked with it and with nothing
\* else, and the caller got the prefixed access token, which is cached
C33_Witness ==
    /\ refresh_token = "r1"
    /\ on_rotation_log = {"r1"}
    /\ \E c \in Callers :
          /\ tpc[c] = "done"
          /\ c \in refreshed
          /\ tresult[c][1] = "ok"
          /\ tresult[c][2][1] = "oauth:"
          /\ current_token = <<tresult[c][2]>>

\* caller c waits for init_lock while another task holds it (line 61)
BlockedOnGuard(c) ==
    tpc[c] = "lock" /\ init_lock # None

\* C34: the initializing guard is only ever held by a get_token caller that
\* is between its second read and the return of its refresh_now, never by a
\* caller that has returned and never by the background loop, which does
\* not take it; so whenever a caller waits for the guard another caller is
\* not waiting and not done; and with every ready task polled and every
\* request answered, every get_token call returns a token or an error.
C34_NoDeadlock ==
    /\ [](init_lock # None =>
            /\ init_lock[1] \in Callers
            /\ tpc[init_lock[1]] \in {"check", "refresh", "request", "rotate"})
    /\ [](tpc[BgTask] \in {"off", "refresh", "request", "rotate", "sleep"})
    /\ []((\E c \in Callers : BlockedOnGuard(c)) =>
            \E d \in Callers : ~BlockedOnGuard(d) /\ tpc[d] # "done")
    /\ \A c \in Callers :
          <>(tpc[c] = "done" /\ tresult[c] # <<>> /\ tresult[c][1] \in {"ok", "err"})

\* one caller waits for the guard while the other, holding it, and the
\* background loop both have a refresh request in flight
C34_Witness ==
    /\ \E c, d \in Callers :
          /\ BlockedOnGuard(c)
          /\ init_lock = <<d>>
          /\ tpc[d] = "request"
    /\ tpc[BgTask] = "request"

(***************************************************************************)
(* parse_tags of the IrcClient's parser (irc/parser.rs:77-130) on any      *)
(* short list of tags.                                                     *)
(***************************************************************************)
MaxTags ==
    2
MaxBadges ==
    2

\* a | b on u8
RECURSIVE BitOr(_, _)
BitOr(a, b) ==
    IF a = 0 /\ b = 0
    THEN 0
    ELSE (IF a % 2 = 1 \/ b % 2 = 1 THEN 1 ELSE 0) + 2 * BitOr(a \div 2, b \div 2)

\* TwitchRole::add (types.rs:20-22): self.0 |= other.0
Add(r, other) ==
    BitOr(r, other)

\* TwitchRole::merge, called at parser.rs:119: the OR of the two roles
Merge(r, other) ==
    BitOr(r, other)

\* a badge is the text between two ',' of the badges value, here cut at its
\* '/': a name, the '/' and a version; or a name alone
Badges ==
    { <<"broadcaster", "/", "1">>, <<"vip", "/", "1">>, <<"subscriber", "/", "12">>,
      <<"founder", "/", "0">>, <<"moderator", "/", "1">>, <<"vip">> }

BadgeLists ==
    UNION { [1..n -> Badges] : n \in 0..MaxBadges }

\* a tag is the text between two ';', cut at its first '=' by split_once:
\* <<key, value>>, or <<key>> when it has no '='; the value of badges is the
\* list split(',') makes of it
TagPairs ==
    { <<"mod", "1">>, <<"mod", "0">>, <<"subscriber", "1">>, <<"subscriber", "0">>,
      <<"vip", "1">>, <<"mod">> }
      \cup { <<"badges", bl>> : bl \in BadgeLists }

TagLists ==
    UNION { [1..n -> TagPairs] : n \in 0..MaxTags }

\* badge.starts_with("<name>/")
BadgeStartsWith(badge, name) ==
    Len(badge) >= 2 /\ badge[1] = name /\ badge[2] = "/"

\* parse_badges (77-90): the loop over the badges from the role so far
RECURSIVE ParseBadgesFrom(_, _)
ParseBadgesFrom(r, badges) ==
    IF badges = <<>>
    THEN r
    ELSE LET badge == Head(badges)
             next == IF BadgeStartsWith(badge, "broadcaster") THEN Add(r, BIT_BROADCASTER)
                     ELSE IF BadgeStartsWith(badge, "vip") THEN Add(r, BIT_VIP)
                     ELSE IF BadgeStartsWith(badge, "subscriber") THEN Add(r, BIT_SUBSCRIBER)
                     ELSE r
         IN  ParseBadgesFrom(next, Tail(badges))

ParseBadges(badges) ==
    ParseBadgesFrom(0, badges)

\* parse_tags (92-130), the role: the loop over the pairs from the role so far
RECURSIVE ParseTagsFrom(_, _)
ParseTagsFrom(r, pairs) ==
    IF pairs = <<>>
    THEN r
    ELSE LET pair == Head(pairs)
             next == IF Len(pair) < 2 THEN r
                     ELSE IF pair[1] = "mod" /\ pair[2] = "1" THEN Add(r, BIT_MODERATOR)
                     ELSE IF pair[1] = "subscriber" /\ pair[2] = "1" THEN Add(r, BIT_SUBSCRIBER)
                     ELSE IF pair[1] = "badges" THEN Merge(r, ParseBadges(pair[2]))
                     ELSE r
         IN  ParseTagsFrom(next, Tail(pairs))

ParseTags(pairs) ==
    ParseTagsFrom(0, pairs)

\* parse_privmsg calls parse_tags on the tags of the line (parser.rs:58)
ParsePrivmsg ==
    /\ meta = None
    /\ meta' = Some(ParseTags(tags))
    /\ UNCHANGED tags
    /\ UNCHANGED <<tokenVars, cancelled, clientVars, fetchVars, chanVars, consumerVars,
                   appVars, handleVars, ircVars, providerVars>>

InitTags ==
    /\ PipelineOff
    /\ HandleOff
    /\ tags \in TagLists
    /\ meta = None

NextTags ==
    ParsePrivmsg

SpecTags ==
    InitTags /\ [][NextTags]_vars

\* the badges of every badges tag of the line
BadgesOf(pairs) ==
    UNION { {pairs[i][2][j] : j \in 1..Len(pairs[i][2])} :
              i \in {k \in 1..Len(pairs) : Len(pairs[k]) = 2 /\ pairs[k][1] = "badges"} }

HasTag(pairs, key, val) ==
    \E i \in 1..Len(pairs) : pairs[i] = <<key, val>>

HasBadge(pairs, names) ==
    \E b \in BadgesOf(pairs) : \E n \in names : BadgeStartsWith(b, n)

\* the role C35 states: one bit for each source present, whatever the order
ClaimedRole(pairs) ==
      (IF HasTag(pairs, "mod", "1") THEN BIT_MODERATOR ELSE 0)
    + (IF HasTag(pairs, "subscriber", "1") \/ HasBadge(pairs, {"subscriber", "founder"})
       THEN BIT_SUBSCRIBER ELSE 0)
    + (IF HasBadge(pairs, {"vip"}) THEN BIT_VIP ELSE 0)
    + (IF HasBadge(pairs, {"broadcaster"}) THEN BIT_BROADCASTER ELSE 0)

\* C35: the role parse_tags returns has exactly the bits of the sources
\* that are present among the tags: moderator for mod=1, subscriber for
\* subscriber=1, and broadcaster, vip, subscriber for a badge
\* broadcaster/*, vip/*, subscriber/* or founder/* (as subscriber); the
\* order of the tags and repeated sources of a bit do not matter, and
\* nothing else adds a bit.
C35_RoleIsOrOfSources ==
    meta # None => meta[1] = ClaimedRole(tags)

(***************************************************************************)
(* SpecRace: the TokenManager with the background loop and NumCallers      *)
(* get_token callers, the provider's responses followed in the order it    *)
(* issues them: a response is issued in one step and received by the task  *)
(* that asked for it in a later one.                                       *)
(***************************************************************************)
\* the n-th access token and the n-th refresh token the provider issues
AccessOf(n) ==
    "a" \o ToString(n)

RefreshOf(n) ==
    "r" \o ToString(n)

\* the response to the request of task t is on its way (lines 107-117)
Answered(t) ==
    "res" \in DOMAIN tloc[t]

\* the provider answers the request of task t with a new access token and,
\* when it rotates, a new refresh token (TokenResponse, lines 17-21)
ProviderResponds(t, rotates) ==
    /\ ProcessAlive
    /\ tpc[t] = "request"
    /\ ~Answered(t)
    /\ Len(issued) < MaxIssued
    /\ LET n == Len(issued) + 1
           res == [access_token |-> AccessOf(n),
                   refresh_token |-> IF rotates THEN RefreshOf(n) ELSE "",
                   expires_in |-> 700]
       IN  /\ issued' = Append(issued, res)
           /\ tloc' = [tloc EXCEPT ![t] =
                           [cr |-> tloc[t].cr, rt |-> "", full |-> None, exp |-> 0,
                            res |-> res]]
    /\ UNCHANGED <<current_token, refresh_token, init_lock, tokenConfig, on_rotation_log,
                   tpc, tresult, refreshed, sawEmpty, bgSleep>>
    /\ UNCHANGED <<cancelled, clientVars, fetchVars, chanVars, consumerVars, appVars,
                   handleVars, ircVars, tagVars>>

\* lines 115-130: the response reaches task t and decodes
RefreshReceives(t) ==
    /\ tpc[t] = "request"
    /\ Answered(t)
    /\ RefreshStore(t, tloc[t].res.access_token, tloc[t].res.refresh_token,
                    tloc[t].res.expires_in)

\* lines 112-114: the request fails before the provider has answered it
RefreshFailsUnanswered(t) ==
    /\ ~Answered(t)
    /\ RefreshFail(t)

RaceRefreshStep(t) ==
    \/ RefreshSend(t)
    \/ RefreshFailsUnanswered(t)
    \/ \E rotates \in BOOLEAN : ProviderResponds(t, rotates)
    \/ RefreshReceives(t)
    \/ RefreshRotate(t)

RaceGetTokenStep(c) ==
    \/ GetTokenCached(c)
    \/ GetTokenMiss(c)
    \/ GetTokenLock(c)
    \/ GetTokenRecheck(c)
    \/ RaceRefreshStep(c)

RaceBgStep ==
    \/ RaceRefreshStep(BgTask)
    \/ BgWake

InitRace ==
    /\ TokenInit(Callers, TRUE, TRUE, AnyProvider)
    /\ ClientOff
    /\ ChannelInit
    /\ IrcOff
    /\ TagsOff
    /\ ConsumerInit("off")
    /\ AppOff

NextRace ==
    \/ \E c \in Callers : RaceGetTokenStep(c)
    \/ RaceBgStep

SpecRace ==
    InitRace /\ [][NextRace]_vars

\* no refresh_now call is under way
NoRefreshUnderWay ==
    \A t \in TokenTasks : tpc[t] \notin {"refresh", "request", "rotate"}

\* the refresh token of the latest response that carried one ("r0", the one
\* the TokenManager was built with, when none did)
LatestRefreshIssued ==
    LET S == {i \in 1..Len(issued) : issued[i].refresh_token # ""}
    IN  IF S = {} THEN "r0"
        ELSE issued[CHOOSE i \in S : \A j \in S : j <= i].refresh_token

\* C36: once the refreshes that ran concurrently have completed, the cached
\* access token is the one of the provider's most recent response and the
\* stored refresh token is the most recent one the provider issued.
C36_LatestResponseWins ==
    (NoRefreshUnderWay /\ issued # <<>>) =>
        /\ current_token = Some(FormatToken(issued[Len(issued)].access_token))
        /\ refresh_token = LatestRefreshIssued

\* C37: the supervisor of either client comes to the head of its loop, where
\* the next connection attempt starts, only from its reconnect sleep (or
\* from connect() itself, before the first attempt): whatever ended an
\* attempt, the delay is waited before the next one.
C37_DelayBeforeEveryReconnect ==
    /\ [][(spc' = "select" /\ spc \notin {"select", "off"}) => spc = "sleep"]_vars
    /\ [][(ipc' = "select" /\ ipc \notin {"select", "off"}) => ipc = "sleep"]_vars


(***************************************************************************)
(* What a failed refresh leaves behind (SpecToken)                         *)
(***************************************************************************)
\* refresh_now of task t, waiting for the provider's answer, returns an
\* error in this step: get_token returns it, the background loop goes to
\* sleep for RETRY_DELAY_SECS
FailsNow(t) ==
    /\ tpc[t] = "request"
    /\ IF t = BgTask
       THEN tpc'[t] = "sleep" /\ bgSleep' = 30
       ELSE tpc'[t] = "done" /\ tresult'[t] = <<"err">>

\* C38: the step in which a refresh fails leaves the cached access token,
\* the stored refresh token and the rotation callback's log as they were,
\* and a cached access token is never taken away: once present, it stays
\* present in every later state.
C38_FailedRefreshChangesNothing ==
    /\ [][\A t \in TokenTasks :
            FailsNow(t) =>
                /\ current_token' = current_token
                /\ refresh_token' = refresh_token
                /\ on_rotation_log' = on_rotation_log]_vars
    /\ [][current_token # None => current_token' # None]_vars

\* the background loop's refresh has just failed, after an earlier refresh
\* had cached a token and stored a rotated refresh token: both are still
\* there and the callback was invoked for the rotation only
C38_Witness ==
    /\ tpc[BgTask] = "sleep"
    /\ bgSleep = 30
    /\ current_token # None
    /\ refresh_token = "r1"
    /\ on_rotation_log = {"r1"}


(***************************************************************************)
(* From the read loop to the Dispatcher (SpecDrain, FairDrain)             *)
(***************************************************************************)
\* the events on their way, oldest first: those the Dispatcher has taken,
\* the Fetcher channel, the event the forwarding task is suspended sending,
\* the SDK channel, the event the read loop is suspended sending
InTransit ==
    received \o fch \o fev \o sdk \o sev

\* the events the read loop has made out of notifications, in order
Produced ==
    [i \in 1..(nextEv - 1) |-> i]

PipelineOpen ==
    ~cancelled /\ sdkRxAlive /\ fchRxAlive

\* the scheduler of FairDrain, which also polls the read loop when its
\* suspended event_tx.send can complete
FairRelay ==
    /\ FairDrain
    /\ WF_vars(SupSendResumes)

\* C39: while cancellation has not been requested and both receivers are
\* alive, the events the read loop produced are exactly the events on their
\* way or taken by the Dispatcher, each once and in the order produced;
\* neither channel holds more than its capacity, a sender is suspended only
\* on a full channel and then keeps its event; and every event produced is
\* eventually received by the Dispatcher, unless cancellation is requested.
C39_NoEventLost ==
    /\ [](PipelineOpen => InTransit = Produced)
    /\ [](Len(sdk) <= CHANNEL_BUFFER_SIZE /\ Len(fch) <= FETCH_CHANNEL_SIZE)
    /\ [][(sev' # None /\ sev = None) => Len(sdk) = CHANNEL_BUFFER_SIZE]_vars
    /\ [][(fev' # None /\ fev = None) => Len(fch) = FETCH_CHANNEL_SIZE]_vars
    /\ \A e \in Events :
          (nextEv > e) ~> (cancelled \/ \E i \in 1..Len(received) : received[i] = e)

\* both channels are full and both senders are suspended, each holding an
\* event, and nothing has been cancelled
C39_Witness ==
    /\ ~cancelled
    /\ Len(sdk) = CHANNEL_BUFFER_SIZE
    /\ sev # None
    /\ Len(fch) = FETCH_CHANNEL_SIZE
    /\ fev # None
    /\ InTransit = Produced


(***************************************************************************)
(* The writer actors of the IrcClient (SpecIrc, FairIrc)                   *)
(***************************************************************************)
\* C40: a writer actor whose attempt has ended (its cmd_tx is dropped)
\* eventually terminates, whether the attempt ended by cancellation, by an
\* error or by a clean close: the writer of the last connection ends or
\* dies unless a new connection is made first, and then, like every writer
\* of an earlier connection, it ends after what was left in its channel; it
\* ends only when its channel is closed and empty or a write failed; and
\* the frames written to the live connection are written by its own writer
\* alone, one command of its channel at a time.
C40_WritersTerminate ==
    /\ (wpc = "running" /\ ~CmdTxAlive) ~> (wpc # "running" \/ CmdTxAlive)
    /\ \A i \in 1..MaxOldWriters : (wold[i] # None) ~> (wold[i] = None)
    /\ [][(wpc = "running" /\ wpc' = "ended") => (cmdq = <<>> /\ ~CmdTxAlive)]_vars
    /\ [][(wpc = "running" /\ ipc = "connecting" /\ ipc' = "handshake")
            => \E i \in 1..MaxOldWriters :
                  /\ wold[i] = None
                  /\ wold' = [wold EXCEPT ![i] = <<Len(cmdq)>>]]_vars
    /\ [][written' # written =>
            \/ /\ wpc = "running"
               /\ cmdq # <<>>
               /\ written' = Append(written, Head(cmdq))
               /\ cmdq' = Tail(cmdq)
               /\ wold' = wold
            \/ /\ ipc = "connecting"
               /\ ipc' = "handshake"
               /\ written' = <<>>]_vars
    /\ [][\A i \in 1..MaxOldWriters :
            (wold[i] # None /\ wold'[i] # wold[i]) =>
                /\ written' = written
                /\ cmdq' = cmdq
                /\ wold'[i] = None \/ wold'[i] = <<wold[i][1] - 1>>]_vars

\* a new connection has been made and its writer has written, while the
\* writer of the connection before still has frames of its own to write
C40_Witness ==
    /\ wpc = "running"
    /\ CmdTxAlive
    /\ written # <<>>
    /\ \E i \in 1..MaxOldWriters : wold[i] # None /\ wold[i][1] > 0

=============================================================================
